---- MODULE Spec2Model ----
(***************************************************************************)
(* GitAudit: the rule-application and scoring engine (AuditEngine), the    *)
(* language classifier (getLanguage), the CLI driver (run, runLocal,       *)
(* runRemote, filterReport), the browser's audit() and GitHubAuth.         *)
(*                                                                         *)
(* Ten specifications share the variables below:                           *)
(*   SpecScore  calculateScores as a pure function of an issue list        *)
(*   Spec       one CLI run: scan or fetch, analyse, report, filter, exit  *)
(*   SpecDet    two fresh engines fed the same file set in any order       *)
(*   SpecWeb    the browser's shared engine: audit(), cancel(), reset()    *)
(*   SpecApi    a caller of analyzeFile, generateReport and reset          *)
(*   SpecDup    _duplicateLines applied to a text of repeated blocks       *)
(*   SpecLong   the long-function detectors applied to one function        *)
(*   SpecLang   getLanguage applied to one path                            *)
(*   SpecOAuth  GitHubAuth's redirect flow: login(), handleCallback()      *)
(*   SpecDevice GitHubAuth's device flow: polling and cancelDeviceFlow()   *)
(* A variable a specification does not use keeps its initial value.        *)
(***************************************************************************)
EXTENDS Integers, Sequences, FiniteSets, TLC

VARIABLES
    cnt,         \* SpecScore: number of issues per <<type, severity>>
    issues,      \* AuditEngine.issues
    files,       \* AuditEngine.files
    statistics,  \* AuditEngine.statistics
    scores,      \* AuditEngine.scores
    repo,        \* the audited tree: every entry of the directory or repository
    target,      \* run: "local" or "remote" (isLocal)
    pc,          \* position of run / runLocal / runRemote
    found,       \* runLocal's files, runRemote's blobs
    idx,         \* 1-based position of the loop over found
    inflight,    \* runRemote: positions of the batch's unsettled fetches
    report,      \* the report after filterReport, NoReport before
    exitCode,    \* process exit code, NoExit while running
    twin,        \* SpecDet: the second engine and its unsettled fetches
    web,         \* SpecWeb: the browser's audit() calls, the engine's cancelled
                 \* flag and the pending continuations of analyzeFile
    failed,      \* positions of found whose read or fetch failed
    fn,          \* the argument and the result of a function applied alone
    auth         \* GitHubAuth: its fields, the storages, the requests out

vars == <<cnt, issues, files, statistics, scores, repo, target, pc, found,
          idx, inflight, report, exitCode, twin, web, failed, fn, auth>>

engineVars == <<issues, files, statistics, scores>>

driverVars == <<repo, target, pc, found, idx, inflight, report, exitCode>>

(***************************************************************************)
(* Issue vocabulary                                                        *)
(***************************************************************************)
Types == <<"security", "performance", "quality", "unused">>

Severities == <<"critical", "warning", "info">>

TypeSet == {Types[i] : i \in 1..Len(Types)}

SeveritySet == {Severities[i] : i \in 1..Len(Severities)}

Max(a, b) == IF a > b THEN a ELSE b

Min(a, b) == IF a < b THEN a ELSE b

NoReport == [repository |-> "none"]

NoExit == 0 - 1

NoTwin == [issues |-> <<>>]

NoWeb == [cancelled |-> FALSE]

NoFn == [lines |-> <<>>]

NoAuth == [accessToken |-> "null"]

(***************************************************************************)
(* AuditEngine.reset                                                       *)
(***************************************************************************)
resetStatistics ==
    [totalFiles |-> 0, totalLines |-> 0, analyzedFiles |-> 0,
     analyzedLines |-> 0, languages |-> <<>>]

resetScores ==
    [security |-> 100, performance |-> 100, quality |-> 100,
     cleanliness |-> 100, overall |-> 100]

(***************************************************************************)
(* AuditEngine.calculateScores                                             *)
(***************************************************************************)
\* byType[issue.type] || byType.quality : an issue of no known type is
\* scored with the quality issues.
bucketOf(issue) ==
    IF issue.type \in TypeSet THEN issue.type ELSE "quality"

byType(iss, t) == SelectSeq(iss, LAMBDA i : bucketOf(i) = t)

severityPenalty_signSlip(sev) ==
    IF sev = "critical" THEN 0 - 15
    ELSE IF sev = "warning" THEN 5
    ELSE 1

\* the if / else-if / else ladder of calc
severityPenalty(sev) ==
    IF sev = "critical" THEN 15
    ELSE IF sev = "warning" THEN 5
    ELSE 1

RECURSIVE penaltyOf(_)
penaltyOf(iss) ==
    IF iss = <<>> THEN 0
    ELSE severityPenalty(Head(iss).severity) + penaltyOf(Tail(iss))

calc(iss, maxPenalty) == Max(0, 100 - Min(penaltyOf(iss), maxPenalty))

\* Math.round(security * 0.35 + performance * 0.25 + quality * 0.25 +
\* cleanliness * 0.15), evaluated left to right in IEEE-754 doubles.
\* w100 is one hundred times the exact sum.  0.25 * n is exact; 0.35 * n and
\* 0.15 * n are not, and when the exact sum is k + 1/2 the computed sum is a
\* last-place unit below it for the security scores listed here, so that
\* Math.round returns k where the exact value rounds to k + 1.  (Checked
\* against double arithmetic for every security in 40..100, performance and
\* quality in 60..100 and cleanliness in 70..100, the values calc can return.)
tieFallsBelow(s, p, q, c) ==
    LET w100 == 35 * s + 25 * p + 25 * q + 15 * c
    IN  /\ w100 % 100 = 50
        /\ \/ s \in {46, 51, 56, 61} /\ w100 < 6400
           \/ s \in {92, 97} /\ 35 * s + 25 * p + 25 * q >= 6400

roundOverall_weightSlip(s, p, q, c) ==
    (35 * s + 25 * p + 25 * q + 25 * c + 50) \div 100

roundOverall(s, p, q, c) ==
    LET w100 == 35 * s + 25 * p + 25 * q + 15 * c
    IN  IF tieFallsBelow(s, p, q, c)
        THEN (w100 + 50) \div 100 - 1
        ELSE (w100 + 50) \div 100

calculateScores_sharedCeiling(iss) ==
    LET security    == calc(byType(iss, "security"), 60)
        performance == calc(byType(iss, "performance"), 60)
        quality     == calc(byType(iss, "quality"), 60)
        cleanliness == calc(byType(iss, "unused"), 60)
    IN  [security |-> security, performance |-> performance,
         quality |-> quality, cleanliness |-> cleanliness,
         overall |-> roundOverall(security, performance, quality, cleanliness)]

calculateScores(iss) ==
    LET security    == calc(byType(iss, "security"), 60)
        performance == calc(byType(iss, "performance"), 40)
        quality     == calc(byType(iss, "quality"), 40)
        cleanliness == calc(byType(iss, "unused"), 30)
    IN  [security |-> security, performance |-> performance,
         quality |-> quality, cleanliness |-> cleanliness,
         overall |-> roundOverall(security, performance, quality, cleanliness)]

(***************************************************************************)
(* Paths.  A path is its directory names and the dot-separated parts of    *)
(* its basename: src/app.js is [dirs |-> <<"src">>, base |-> <<"app",      *)
(* "js">>], .gitignore is [dirs |-> <<>>, base |-> <<"", "gitignore">>].   *)
(***************************************************************************)
Path(dirs, base) == [dirs |-> dirs, base |-> base]

\* String.prototype.toLowerCase on the name parts used here
toLowerCase(part) ==
    CASE part = "PY" -> "py"
      [] part = "JS" -> "js"
      [] part = "Main" -> "main"
      [] part = "PHP" -> "php"
      [] part = "BLADE" -> "blade"
      [] OTHER -> part

\* path.extname: from the last dot of the basename to its end, "" when the
\* basename has no dot or its only dot is its first character.  The result
\* is given without its leading dot, as a sequence of one part.
extname(path) ==
    LET b == path.base
    IN  IF Len(b) < 2 \/ (Len(b) = 2 /\ b[1] = "") THEN <<>>
        ELSE <<b[Len(b)]>>

(***************************************************************************)
(* languages.js: the lookup tables (the entries the paths below reach) and *)
(* getLanguage.  A key of LANGUAGES is written without its leading dot, as *)
(* the sequence of its parts: '.blade.php' is <<"blade", "php">>.          *)
(***************************************************************************)
LANGUAGES ==
    ( <<"js">>           :> [name |-> "JavaScript", family |-> "js"]      @@
      <<"py">>           :> [name |-> "Python",     family |-> "python"]  @@
      <<"php">>          :> [name |-> "PHP",        family |-> "php"]     @@
      <<"blade", "php">> :> [name |-> "Blade",      family |-> "html"]    @@
      <<"toml">>         :> [name |-> "TOML",       family |-> "toml"]    @@
      <<"txt">>          :> [name |-> "Plain Text", family |-> "text"] )

FILENAME_LANGUAGES ==
    ( <<"Dockerfile">>     :> [name |-> "Dockerfile",   family |-> "docker"] @@
      <<"Cargo", "toml">>  :> [name |-> "Cargo Config", family |-> "toml"]   @@
      <<"go", "sum">>      :> [name |-> "Go Checksum",  family |-> "text"]   @@
      <<"", "gitignore">>  :> [name |-> "Git Ignore",   family |-> "gitignore"] )

\* FILENAME_LANGUAGES is an object literal: a lookup by a basename that is a
\* property name of Object.prototype returns the inherited value, which is
\* truthy and has no family.  FILENAME_LANGUAGES['constructor'] is the
\* function Object, whose name is "Object".
ObjectPrototypeProps ==
    ( <<"constructor">> :> [name |-> "Object",   family |-> "undefined"] @@
      <<"toString">>    :> [name |-> "toString", family |-> "undefined"] )

OtherLanguage == [name |-> "Other", family |-> "other"]

getLanguage(path) ==
    LET basename == path.base
        compoundExt == IF Len(basename) > 1 THEN Tail(basename) ELSE <<>>
        ext == IF extname(path) = <<>> THEN <<>>
               ELSE <<toLowerCase(extname(path)[1])>>
    IN  IF basename \in DOMAIN FILENAME_LANGUAGES
            THEN FILENAME_LANGUAGES[basename]
        ELSE IF basename \in DOMAIN ObjectPrototypeProps
            THEN ObjectPrototypeProps[basename]
        ELSE IF compoundExt # <<>> /\ compoundExt \in DOMAIN LANGUAGES
            THEN LANGUAGES[compoundExt]
        ELSE IF ext \in DOMAIN LANGUAGES
            THEN LANGUAGES[ext]
        ELSE OtherLanguage

\* IGNORE_DIRS (the entries the paths below reach) and shouldIgnoreDir
IGNORE_DIRS == {"node_modules", "dist", "build", "vendor"}

startsWithDot(name) == name \in {".git", ".cache"}

shouldIgnoreDir(dirName) == dirName \in IGNORE_DIRS \/ startsWithDot(dirName)

\* BINARY_EXTENSIONS (the entries the paths below reach) and isBinaryFile
BINARY_EXTENSIONS == {<<"png">>, <<"lock">>, <<"map">>}

isBinaryFile(path) ==
    LET ext == IF extname(path) = <<>> THEN <<>>
               ELSE <<toLowerCase(extname(path)[1])>>
        b == path.base
    IN  \/ ext \in BINARY_EXTENSIONS
        \/ b \in {<<"package-lock", "json">>, <<"yarn", "lock">>}
        \/ /\ Len(b) >= 3
           /\ <<b[Len(b) - 1], b[Len(b)]>> \in
                  {<<"min", "js">>, <<"min", "css">>, <<"bundle", "js">>, <<"chunk", "js">>}

MAX_FILE_SIZE == 1048576

GITHUB_BATCH_SIZE == 5

(***************************************************************************)
(* File contents.  The rules are patterns over the text; a content is      *)
(* modelled by what the four analysis passes do with it: lines is          *)
(* content.split('\n').length, chars is content.length, emits the          *)
(* candidate issues the passes hand to addIssue, in order, and throws      *)
(* tells whether the unused-code pass raises (new RegExp over a name taken *)
(* from the text) after the candidates of emits.  from tells what the      *)
(* FROM lines of the text name: "none" when no line is FROM image:tag,     *)
(* "latest" when one is FROM image:latest, "pinned" otherwise.             *)
(***************************************************************************)
Candidate(type, severity, title, line) ==
    [type |-> type, severity |-> severity, title |-> title, line |-> line]

\* two OpenAI keys on line 1, a TODO on line 2
KeyJs ==
    [lines |-> 3, chars |-> 120, throws |-> FALSE, from |-> "none",
     emits |-> << Candidate("security", "critical", "Exposed OpenAI API Key", 1),
                  Candidate("security", "critical", "Exposed OpenAI API Key", 1),
                  Candidate("quality", "info", "TODO Comment", 2) >>]

\* for i in range(len(items)) on line 2, an import used nowhere on line 1
LoopPy ==
    [lines |-> 2, chars |-> 40, throws |-> FALSE, from |-> "none",
     emits |-> << Candidate("performance", "info", "range(len()) Loop", 2),
                  Candidate("unused", "warning", "Unused Import", 1) >>]

\* import of a name that is no valid pattern: _unusedImportsPython raises
BadImportPy ==
    [lines |-> 2, chars |-> 30, throws |-> TRUE, from |-> "none",
     emits |-> << Candidate("performance", "info", "range(len()) Loop", 2) >>]

\* the empty string
EmptyText ==
    [lines |-> 1, chars |-> 0, throws |-> FALSE, from |-> "none", emits |-> <<>>]

\* FROM node:20 and a COPY line
PinnedImage ==
    [lines |-> 2, chars |-> 25, throws |-> FALSE, from |-> "pinned", emits |-> <<>>]

(***************************************************************************)
(* AuditEngine: addIssue, analyzeFile, generateReport.  An engine value is *)
(* [issues, files, statistics, scores].                                    *)
(***************************************************************************)
isDuplicate(iss, issue) ==
    \E k \in 1..Len(iss) :
        /\ iss[k].file = issue.file
        /\ iss[k].line = issue.line
        /\ iss[k].title = issue.title

nextId_zeroBased(iss) == Len(iss)

\* id: this.issues.length + 1
nextId(iss) == Len(iss) + 1

addIssue_alwaysPush(iss, issue) ==
    IF FALSE THEN iss
    ELSE Append(iss, [id |-> nextId(iss), type |-> issue.type,
                      severity |-> issue.severity, title |-> issue.title,
                      file |-> issue.file, line |-> issue.line])

addIssue(iss, issue) ==
    IF isDuplicate(iss, issue) THEN iss
    ELSE Append(iss, [id |-> nextId(iss), type |-> issue.type,
                      severity |-> issue.severity, title |-> issue.title,
                      file |-> issue.file, line |-> issue.line])

\* the calls of addIssue made by runSecurityAnalysis, runPerformanceAnalysis,
\* runQualityAnalysis and runUnusedCodeAnalysis, in order
RECURSIVE runAnalysis(_, _, _)
runAnalysis(iss, path, emits) ==
    IF emits = <<>> THEN iss
    ELSE runAnalysis(
             addIssue(iss, [type |-> Head(emits).type,
                            severity |-> Head(emits).severity,
                            title |-> Head(emits).title,
                            file |-> path, line |-> Head(emits).line]),
             path, Tail(emits))

\* the candidates of one pass: runSecurityAnalysis adds the security issues,
\* runPerformanceAnalysis the performance issues, and so on
passEmits(content, p) == SelectSeq(content.emits, LAMBDA c : c.type = Types[p])

\* runQualityAnalysis, family docker: no FROM image:tag line, or a FROM
\* image:latest line, adds one warning at line 1
baseImageRule(lang, content) ==
    IF lang.family = "docker" /\ content.from # "pinned"
    THEN << Candidate("quality", "warning", "Untagged or :latest Base Image", 1) >>
    ELSE <<>>

\* the candidates of the four passes, in the order of the calls
candidates(lang, content) ==
    passEmits(content, 1) \o passEmits(content, 2) \o passEmits(content, 3)
        \o baseImageRule(lang, content) \o passEmits(content, 4)

\* A value of the histogram: the number n when text is "", and otherwise
\* the string made of text followed by the digits of n.
Count(n) == [text |-> "", n |-> n]

\* statistics.languages is an object literal: for a name that is a property
\* of Object.prototype and not yet an own property, languages[name] is the
\* inherited function
inheritedText(name) ==
    IF name \in {"toString", "constructor"}
    THEN "function " \o name \o "() { [native code] }"
    ELSE ""

\* statistics.languages[name] = (statistics.languages[name] || 0) + 1: a
\* number grows by 1; a function or a string is truthy, and + 1 appends the
\* character 1 to its text
countLanguage(languages, name) ==
    IF name \in DOMAIN languages
    THEN [languages EXCEPT ![name] =
             IF @.text = "" THEN Count(@.n + 1)
             ELSE [text |-> @.text, n |-> 10 * @.n + 1]]
    ELSE IF inheritedText(name) # ""
    THEN languages @@ (name :> [text |-> inheritedText(name), n |-> 1])
    ELSE languages @@ (name :> Count(1))

\* the first half of analyzeFile: the statistics and the FileRecord
recordFile(e, path, content) ==
    LET lang == getLanguage(path)
    IN  [e EXCEPT
            !.statistics = [@ EXCEPT
                !.analyzedFiles = @ + 1,
                !.analyzedLines = @ + content.lines,
                !.languages = countLanguage(@, lang.name)],
            !.files = Append(@, [path |-> path, language |-> lang.name,
                                 family |-> lang.family,
                                 lines |-> content.lines,
                                 size |-> content.chars])]

analyzeFile_recordLast(e, path, content) ==
    LET r == [e EXCEPT !.issues =
                 runAnalysis(@, path, candidates(getLanguage(path), content))]
    IN  IF content.throws THEN r ELSE recordFile(r, path, content)

\* analyzeFile; when the unused-code pass raises, the state is the one
\* reached at the raise and the exception goes to the caller
analyzeFile(e, path, content) ==
    LET r == recordFile(e, path, content)
    IN  [r EXCEPT !.issues =
            runAnalysis(@, path, candidates(getLanguage(path), content))]

countSeverity(iss, sev) == Len(SelectSeq(iss, LAMBDA i : i.severity = sev))

\* _summary: the counts and the band the sentence is built from
summaryOf(e, sc) ==
    [analyzedFiles |-> e.statistics.analyzedFiles,
     analyzedLines |-> e.statistics.analyzedLines,
     critical |-> countSeverity(e.issues, "critical"),
     warnings |-> countSeverity(e.issues, "warning"),
     band |-> IF sc.overall >= 80 THEN "good shape"
              ELSE IF sc.overall >= 60 THEN "room for improvement"
              ELSE "attention needed"]

applyCalculateScores_cumulative(e) ==
    LET penalty(t) == penaltyOf(byType(e.issues, t))
        security    == Max(0, e.scores.security - Min(penalty("security"), 60))
        performance == Max(0, e.scores.performance - Min(penalty("performance"), 40))
        quality     == Max(0, e.scores.quality - Min(penalty("quality"), 40))
        cleanliness == Max(0, e.scores.cleanliness - Min(penalty("unused"), 30))
    IN  [e EXCEPT !.scores =
            [security |-> security, performance |-> performance,
             quality |-> quality, cleanliness |-> cleanliness,
             overall |-> roundOverall(security, performance, quality, cleanliness)]]

\* this.calculateScores(): the five fields of this.scores are overwritten
applyCalculateScores(e) == [e EXCEPT !.scores = calculateScores(e.issues)]

\* generateReport, the timestamp left out; scores: this.scores
generateReport(e, repoName) ==
    LET sc == applyCalculateScores(e).scores
    IN  [repository |-> repoName,
         statistics |->
             [totalFiles |-> e.statistics.totalFiles,
              totalLines |-> e.statistics.totalLines,
              analyzedFiles |-> e.statistics.analyzedFiles,
              analyzedLines |-> e.statistics.analyzedLines,
              languages |-> e.statistics.languages,
              totalIssues |-> Len(e.issues),
              criticalIssues |-> countSeverity(e.issues, "critical"),
              warnings |-> countSeverity(e.issues, "warning"),
              suggestions |-> countSeverity(e.issues, "info")],
         scores |-> sc,
         issues |-> e.issues,
         files |-> e.files,
         summary |-> summaryOf(e, sc)]

(***************************************************************************)
(* The CLI: filterReport, the exit code, LocalScanner.scan, runRemote's    *)
(* blob filter.                                                            *)
(***************************************************************************)
\* sevOrder[x] ?? 0
sevOrder(x) ==
    CASE x = "info" -> 0
      [] x = "warning" -> 1
      [] x = "critical" -> 2
      [] OTHER -> 0

filterReport_recount(rep, opts) ==
    LET kept == SelectSeq(rep.issues, LAMBDA issue :
                    /\ ~(sevOrder(issue.severity) < sevOrder(opts.severity))
                    /\ ~(opts.type # "" /\ issue.type # opts.type))
    IN  [rep EXCEPT !.issues = kept,
                    !.statistics = [@ EXCEPT
                        !.totalIssues = Len(kept),
                        !.criticalIssues = countSeverity(kept, "critical")]]

\* opts.type is "" when --type is not given
filterReport(rep, opts) ==
    [rep EXCEPT !.issues =
        SelectSeq(@, LAMBDA issue :
            /\ ~(sevOrder(issue.severity) < sevOrder(opts.severity))
            /\ ~(opts.type # "" /\ issue.type # opts.type))]

exitCodeOf_filtered(rep) ==
    IF countSeverity(rep.issues, "critical") > 0 THEN 1 ELSE 0

\* if (report.statistics.criticalIssues > 0) process.exit(1)
exitCodeOf(rep) ==
    IF rep.statistics.criticalIssues > 0 THEN 1 ELSE 0

scan_keepOther(tree) ==
    SelectSeq(tree, LAMBDA entry :
        /\ entry.type = "blob"
        /\ \A k \in 1..Len(entry.path.dirs) : ~shouldIgnoreDir(entry.path.dirs[k])
        /\ ~isBinaryFile(entry.path)
        /\ ~(entry.size > MAX_FILE_SIZE))

\* LocalScanner.scan: the files walk keeps, in the order it meets them
scan(tree) ==
    SelectSeq(tree, LAMBDA entry :
        /\ entry.type = "blob"
        /\ \A k \in 1..Len(entry.path.dirs) : ~shouldIgnoreDir(entry.path.dirs[k])
        /\ ~isBinaryFile(entry.path)
        /\ getLanguage(entry.path).family # "other"
        /\ ~(entry.size > MAX_FILE_SIZE))

\* runRemote: tree.tree.filter(...)
blobsOf(tree) ==
    SelectSeq(tree, LAMBDA item :
        /\ item.type = "blob"
        /\ getLanguage(item.path).family # "other"
        /\ item.size <= MAX_FILE_SIZE)

declareTotal_forgotten(stats, list) == stats

\* engine.statistics.totalFiles = files.length (blobs.length)
declareTotal(stats, list) == [stats EXCEPT !.totalFiles = Len(list)]

(***************************************************************************)
(* SpecScore: calculateScores applied to bounded issue lists.              *)
(* The list holds cnt[<<t, s>>] issues of type t and severity s; it starts *)
(* empty or with every category exactly at its penalty ceiling, and grows  *)
(* by one issue per step.                                                  *)
(***************************************************************************)
MaxAdded == 6

Kinds == TypeSet \X SeveritySet

EmptyCounts == [k \in Kinds |-> 0]

\* security 4 x 15 = 60, performance and quality 2 x 15 + 2 x 5 = 40,
\* unused 2 x 15 = 30
AtCeilingCounts ==
    [k \in Kinds |->
        IF k = <<"security", "critical">> THEN 4
        ELSE IF k \in {<<"performance", "critical">>, <<"performance", "warning">>,
                       <<"quality", "critical">>, <<"quality", "warning">>,
                       <<"unused", "critical">>} THEN 2
        ELSE 0]

BaseCounts == {EmptyCounts, AtCeilingCounts}

RECURSIVE Repeat(_, _)
Repeat(x, n) == IF n = 0 THEN <<>> ELSE <<x>> \o Repeat(x, n - 1)

RECURSIVE Reverse(_)
Reverse(s) == IF s = <<>> THEN <<>> ELSE Reverse(Tail(s)) \o <<Head(s)>>

RECURSIVE IssuesFrom(_, _, _)
IssuesFrom(c, ti, si) ==
    IF ti > Len(Types) THEN <<>>
    ELSE IF si > Len(Severities) THEN IssuesFrom(c, ti + 1, 1)
    ELSE Repeat([type |-> Types[ti], severity |-> Severities[si]],
                c[<<Types[ti], Severities[si]>>])
         \o IssuesFrom(c, ti, si + 1)

IssuesOf(c) == IssuesFrom(c, 1, 1)

BaseLen == [b \in BaseCounts |-> Len(IssuesOf(b))]

ScoreInit ==
    /\ cnt \in BaseCounts
    /\ issues = IssuesOf(cnt)
    /\ scores = calculateScores(issues)
    /\ files = <<>>
    /\ statistics = resetStatistics
    /\ repo = <<>>
    /\ target = "none"
    /\ pc = "score"
    /\ found = <<>>
    /\ idx = 1
    /\ inflight = {}
    /\ report = NoReport
    /\ exitCode = NoExit
    /\ twin = NoTwin
    /\ web = NoWeb
    /\ failed = {}
    /\ fn = NoFn
    /\ auth = NoAuth

ScoreAddIssue(t, s) ==
    /\ \E b \in BaseCounts :
          /\ \A k \in Kinds : cnt[k] >= b[k]
          /\ Len(issues) - BaseLen[b] < MaxAdded
    /\ cnt' = [cnt EXCEPT ![<<t, s>>] = @ + 1]
    /\ issues' = IssuesOf(cnt')
    /\ scores' = calculateScores(issues')
    /\ UNCHANGED <<files, statistics, driverVars, twin, web, failed, fn, auth>>

ScoreNext == \E t \in TypeSet, s \in SeveritySet : ScoreAddIssue(t, s)

SpecScore == ScoreInit /\ [][ScoreNext]_vars

(***************************************************************************)
(* Spec: one run of the CLI over a tree.                                   *)
(***************************************************************************)
Entry(path, type, size, content) ==
    [path |-> path, type |-> type, size |-> size, content |-> content]

FullRepo ==
    << Entry(Path(<<>>, <<"src">>), "tree", 0, EmptyText),
       Entry(Path(<<"src">>, <<"app", "js">>), "blob", 120, KeyJs),
       Entry(Path(<<"tools">>, <<"Main", "PY">>), "blob", 40, LoopPy),
       Entry(Path(<<>>, <<"bad", "py">>), "blob", 30, BadImportPy),
       Entry(Path(<<>>, <<"notes", "xyz">>), "blob", 10, EmptyText),
       Entry(Path(<<"node_modules", "lib">>, <<"index", "js">>), "blob", 120, KeyJs),
       Entry(Path(<<>>, <<"logo", "png">>), "blob", 10, EmptyText),
       Entry(Path(<<>>, <<"big", "js">>), "blob", MAX_FILE_SIZE + 1, KeyJs) >>

PyRepo ==
    << Entry(Path(<<"tools">>, <<"Main", "PY">>), "blob", 40, LoopPy),
       Entry(Path(<<>>, <<"view", "blade", "php">>), "blob", 0, EmptyText),
       Entry(Path(<<>>, <<"README">>), "blob", 10, EmptyText),
       Entry(Path(<<>>, <<"constructor">>), "blob", 0, EmptyText) >>

Repos == {FullRepo, PyRepo, <<>>}

\* six files to analyse: more than one batch of GITHUB_BATCH_SIZE
WideRepo ==
    << Entry(Path(<<"lib">>, <<"m1", "js">>), "blob", 0, EmptyText),
       Entry(Path(<<"lib">>, <<"m2", "js">>), "blob", 0, EmptyText),
       Entry(Path(<<"lib">>, <<"m3", "js">>), "blob", 0, EmptyText),
       Entry(Path(<<"lib">>, <<"m4", "js">>), "blob", 0, EmptyText),
       Entry(Path(<<"lib">>, <<"m5", "js">>), "blob", 0, EmptyText),
       Entry(Path(<<"lib">>, <<"m6", "js">>), "blob", 40, LoopPy) >>

RunRepos == Repos \cup {WideRepo}

SeverityOptions == {"info", "warning", "critical", "loud"}

TypeOptions == {"", "security", "quality", "style"}

Engine ==
    [issues |-> issues, files |-> files, statistics |-> statistics,
     scores |-> scores]

SetEngine(e) ==
    /\ issues' = e.issues
    /\ files' = e.files
    /\ statistics' = e.statistics

\* new AuditEngine() in run
Init ==
    /\ cnt = EmptyCounts
    /\ issues = <<>>
    /\ files = <<>>
    /\ statistics = resetStatistics
    /\ scores = resetScores
    /\ repo \in RunRepos
    /\ target \in {"local", "remote"}
    /\ pc = "run"
    /\ found = <<>>
    /\ idx = 1
    /\ inflight = {}
    /\ report = NoReport
    /\ exitCode = NoExit
    /\ twin = NoTwin
    /\ web = NoWeb
    /\ failed = {}
    /\ fn = NoFn
    /\ auth = NoAuth

processExit_keepsRunning(code) == [exitCode |-> code, pc |-> "run"]

\* process.exit(code): the process ends there
processExit(code) == [exitCode |-> code, pc |-> "exited"]

\* runLocal: the path does not exist
RunLocalNotFound ==
    /\ pc = "run" /\ target = "local"
    /\ exitCode = NoExit
    /\ exitCode' = processExit(2).exitCode
    /\ pc' = processExit(2).pc
    /\ UNCHANGED <<cnt, fn, auth, engineVars, repo, target, found, idx, inflight, report, twin, web, failed>>

\* runLocal: scan, then declare totalFiles
RunLocalScan ==
    /\ pc = "run" /\ target = "local"
    /\ found' = scan(repo)
    /\ statistics' = declareTotal(statistics, found')
    /\ idx' = 1
    /\ pc' = "local"
    /\ UNCHANGED <<cnt, fn, auth, issues, files, scores, repo, target, inflight, report,
                   exitCode, twin, web, failed>>

afterReadFailure_abort(i, n) == n + 1

\* if (content === null) continue: the loop goes on with the next file
afterReadFailure(i, n) == i + 1

\* runLocal: one turn of the loop; readFile returns null or the text, and an
\* exception of analyzeFile is swallowed
RunLocalFile ==
    /\ pc = "local" /\ idx <= Len(found)
    /\ \E readOk \in BOOLEAN :
          IF readOk
          THEN /\ SetEngine(analyzeFile(Engine, found[idx].path, found[idx].content))
               /\ idx' = idx + 1
               /\ UNCHANGED failed
          ELSE /\ UNCHANGED <<issues, files, statistics>>
               /\ idx' = afterReadFailure(idx, Len(found))
               /\ failed' = failed \cup {idx}
    /\ UNCHANGED <<cnt, fn, auth, scores, repo, target, pc, found, inflight, report,
                   exitCode, twin, web>>

RunLocalDone ==
    /\ pc = "local" /\ idx > Len(found)
    /\ pc' = "report"
    /\ UNCHANGED <<cnt, fn, auth, engineVars, repo, target, found, idx, inflight, report,
                   exitCode, twin, web, failed>>

\* runRemote: getRepoTree fails, or the answer has no tree
RunRemoteUnreachable ==
    /\ pc = "run" /\ target = "remote"
    /\ exitCode = NoExit
    /\ exitCode' = processExit(2).exitCode
    /\ pc' = processExit(2).pc
    /\ UNCHANGED <<cnt, fn, auth, engineVars, repo, target, found, idx, inflight, report, twin, web, failed>>

\* runRemote: the tree arrives; filter the blobs, declare totalFiles
RunRemoteTree ==
    /\ pc = "run" /\ target = "remote"
    /\ found' = blobsOf(repo)
    /\ statistics' = declareTotal(statistics, found')
    /\ idx' = 1
    /\ pc' = "remote"
    /\ UNCHANGED <<cnt, fn, auth, issues, files, scores, repo, target, inflight, report,
                   exitCode, twin, web, failed>>

\* runRemote: batch.map starts the fetch of every blob of the batch
RemoteBatchStart ==
    /\ pc = "remote" /\ idx <= Len(found)
    /\ inflight' = inflight \cup (idx .. Min(idx + GITHUB_BATCH_SIZE - 1, Len(found)))
    /\ pc' = "batch"
    /\ UNCHANGED <<cnt, fn, auth, engineVars, repo, target, found, idx, report, exitCode, twin, web, failed>>

\* runRemote: one fetch settles; the text goes to analyzeFile at once, a
\* failed fetch and an exception of analyzeFile are swallowed
RemoteFetchSettle(k) ==
    /\ pc = "batch" /\ k \in inflight
    /\ \E fetchOk \in BOOLEAN :
          IF fetchOk
          THEN /\ SetEngine(analyzeFile(Engine, found[k].path, found[k].content))
               /\ UNCHANGED failed
          ELSE /\ UNCHANGED <<issues, files, statistics>>
               /\ failed' = failed \cup {k}
    /\ inflight' = inflight \ {k}
    /\ UNCHANGED <<cnt, fn, auth, scores, repo, target, pc, found, idx, report, exitCode, twin, web>>

allSettled_none(unsettled) == TRUE

\* await Promise.all(batch.map(...)): no task rejects (each has its catch),
\* so the promise resolves when no task of the batch is unsettled
allSettled(unsettled) == unsettled = {}

\* runRemote: Promise.all resolves, the loop moves to the next batch
RemoteBatchEnd ==
    /\ pc = "batch" /\ allSettled(inflight)
    /\ idx' = idx + GITHUB_BATCH_SIZE
    /\ pc' = "remote"
    /\ UNCHANGED <<cnt, fn, auth, engineVars, repo, target, found, inflight, report,
                   exitCode, twin, web, failed>>

RemoteDone ==
    /\ pc = "remote" /\ idx > Len(found)
    /\ pc' = "report"
    /\ UNCHANGED <<cnt, fn, auth, engineVars, repo, target, found, idx, inflight, report,
                   exitCode, twin, web, failed>>

\* run: generateReport, filterReport, output, exit code
Finish(opts) ==
    /\ pc = "report"
    /\ LET rep == generateReport(Engine, "repo")
       IN  /\ scores' = rep.scores
           /\ report' = filterReport(rep, opts)
           /\ exitCode' = exitCodeOf(report')
    /\ pc' = "exited"
    /\ UNCHANGED <<cnt, fn, auth, issues, files, statistics, repo, target, found, idx,
                   inflight, twin, web, failed>>

Next ==
    \/ RunLocalNotFound
    \/ RunLocalScan
    \/ RunLocalFile
    \/ RunLocalDone
    \/ RunRemoteUnreachable
    \/ RunRemoteTree
    \/ RemoteBatchStart
    \/ \E k \in 1..Len(found) : RemoteFetchSettle(k)
    \/ RemoteBatchEnd
    \/ RemoteDone
    \/ \E sev \in SeverityOptions, ty \in TypeOptions :
          Finish([severity |-> sev, type |-> ty])

Spec == Init /\ [][Next]_vars

(***************************************************************************)
(* SpecDet: runRemote twice over the same tree, each run with a fresh      *)
(* engine.  Every fetch succeeds, so both engines receive the same set of  *)
(* (path, content); the fetches of a batch settle in any order.  The trees *)
(* of Repos fit in one batch.                                              *)
(***************************************************************************)
TwinEngine == [issues |-> twin.issues, files |-> twin.files,
               statistics |-> twin.statistics, scores |-> resetScores]

DetInit ==
    /\ cnt = EmptyCounts
    /\ repo \in Repos
    /\ target = "remote"
    /\ pc = "det"
    /\ found = blobsOf(repo)
    /\ idx = 1
    /\ issues = <<>>
    /\ files = <<>>
    /\ statistics = declareTotal(resetStatistics, found)
    /\ scores = resetScores
    /\ inflight = 1 .. Min(GITHUB_BATCH_SIZE, Len(found))
    /\ report = NoReport
    /\ exitCode = NoExit
    /\ twin = [issues |-> <<>>, files |-> <<>>,
               statistics |-> declareTotal(resetStatistics, found),
               inflight |-> 1 .. Min(GITHUB_BATCH_SIZE, Len(found))]
    /\ web = NoWeb
    /\ failed = {}
    /\ fn = NoFn
    /\ auth = NoAuth

\* a fetch of the first run settles
DetSettle(k) ==
    /\ pc = "det" /\ k \in inflight
    /\ SetEngine(analyzeFile(Engine, found[k].path, found[k].content))
    /\ inflight' = inflight \ {k}
    /\ UNCHANGED <<cnt, fn, auth, scores, repo, target, pc, found, idx, report, exitCode, twin, web, failed>>

\* a fetch of the second run settles
DetTwinSettle(k) ==
    /\ pc = "det" /\ k \in twin.inflight
    /\ LET e == analyzeFile(TwinEngine, found[k].path, found[k].content)
       IN  twin' = [issues |-> e.issues, files |-> e.files,
                    statistics |-> e.statistics,
                    inflight |-> twin.inflight \ {k}]
    /\ UNCHANGED <<cnt, fn, auth, engineVars, driverVars, web, failed>>

DetNext ==
    \/ \E k \in 1..Len(found) : DetSettle(k)
    \/ \E k \in 1..Len(found) : DetTwinSettle(k)

SpecDet == DetInit /\ [][DetNext]_vars

(***************************************************************************)
(* The browser engine: CONFIG.AUDIT of js/config.js, shouldAnalyze,        *)
(* getLanguage, reset, analyzeFile and calculateScores of its AuditEngine. *)
(***************************************************************************)
\* CONFIG.AUDIT.IGNORE_PATTERNS, BINARY_EXTENSIONS and SUPPORTED_EXTENSIONS
\* (the entries the paths below reach), extensions without the leading dot
webIgnorePatterns == {"node_modules", "vendor", "dist", "build", ".git", "bin"}

webBinaryExtensions == {"png", "svg", "pdf"}

webSupportedExtensions == {"js", "py", "php", "toml", "txt", "md", "json"}

webSupportedNames == {"Dockerfile", "Makefile", "Gemfile"}

\* String.prototype.includes, for the names and patterns used here
nameIncludes(name, pattern) ==
    \/ name = pattern
    \/ <<name, pattern>> \in {<<"robin", "bin">>, <<"distance", "dist">>}

\* shouldAnalyze: path.includes(pattern) for no ignore pattern, the
\* lower-cased path ends with no binary extension, and the path as written
\* ends with a supported extension or name
shouldAnalyze(path) ==
    LET names == {path.dirs[k] : k \in 1..Len(path.dirs)}
                     \cup {path.base[k] : k \in 1..Len(path.base)}
        last == path.base[Len(path.base)]
    IN  /\ ~\E pattern \in webIgnorePatterns :
               \E name \in names : nameIncludes(name, pattern)
        /\ ~(Len(path.base) >= 2 /\ toLowerCase(last) \in webBinaryExtensions)
        /\ \/ Len(path.base) >= 2 /\ last \in webSupportedExtensions
           \/ Len(path.base) = 1 /\ last \in webSupportedNames

\* the browser's getLanguage: languageMap[getExtension(path).toLowerCase()]
\* || 'Other'
webGetLanguage(path) ==
    LET ext == IF Len(path.base) >= 2
               THEN toLowerCase(path.base[Len(path.base)]) ELSE ""
    IN  CASE ext = "js" -> "JavaScript"
          [] ext = "py" -> "Python"
          [] ext = "php" -> "PHP"
          [] ext = "toml" -> "TOML"
          [] ext = "md" -> "Markdown"
          [] ext = "json" -> "JSON"
          [] OTHER -> "Other"

reset_keepIssues(e) ==
    [issues |-> e.issues, files |-> <<>>, statistics |-> resetStatistics,
     scores |-> resetScores, cancelled |-> FALSE]

\* reset: every field of the run state is assigned a fresh value
reset(e) ==
    [issues |-> <<>>, files |-> <<>>, statistics |-> resetStatistics,
     scores |-> resetScores, cancelled |-> FALSE]

\* analyzeFile up to its first await: the statistics, the FileRecord and the
\* body of runSecurityAnalysis
webAnalyzeFileStart(e, path, content) ==
    LET language == webGetLanguage(path)
    IN  [e EXCEPT
            !.statistics = [@ EXCEPT
                !.analyzedFiles = @ + 1,
                !.analyzedLines = @ + content.lines,
                !.languages = countLanguage(@, language)],
            !.files = Append(@, [path |-> path, language |-> language,
                                 lines |-> content.lines,
                                 size |-> content.chars]),
            !.issues = runAnalysis(@, path, passEmits(content, 1))]

\* analyzeFile from one await to the next: the body of the p-th pass
webAnalyzeFilePass(e, path, content, p) ==
    [e EXCEPT !.issues = runAnalysis(@, path, passEmits(content, p))]

\* the browser's calculateScores: filter by type, switch on the severity
webCalculateScores(iss) ==
    LET score(t, maxPenalty) ==
            LET own == SelectSeq(iss, LAMBDA i : i.type = t)
                penalty == 15 * countSeverity(own, "critical")
                           + 5 * countSeverity(own, "warning")
                           + countSeverity(own, "info")
            IN  Max(0, 100 - Min(penalty, maxPenalty))
        security    == score("security", 60)
        performance == score("performance", 40)
        quality     == score("quality", 40)
        cleanliness == score("unused", 30)
    IN  [security |-> security, performance |-> performance,
         quality |-> quality, cleanliness |-> cleanliness,
         overall |-> roundOverall(security, performance, quality, cleanliness)]

\* the browser's generateReport, the timestamp and the summary text left out
webGenerateReport(e, sc, repoName) ==
    [repository |-> repoName,
     statistics |->
         [totalFiles |-> e.statistics.totalFiles,
          totalLines |-> e.statistics.totalLines,
          analyzedFiles |-> e.statistics.analyzedFiles,
          analyzedLines |-> e.statistics.analyzedLines,
          languages |-> e.statistics.languages,
          totalIssues |-> Len(e.issues),
          criticalIssues |-> countSeverity(e.issues, "critical"),
          warnings |-> countSeverity(e.issues, "warning"),
          suggestions |-> countSeverity(e.issues, "info")],
     scores |-> sc,
     issues |-> e.issues,
     files |-> e.files]

(***************************************************************************)
(* SpecWeb: the browser page.  One AuditEngine (the exported singleton)    *)
(* serves every audit() call; startAudit calls audit() whenever the user   *)
(* asks for an audit, also while an earlier call is still running.  A step *)
(* is one task of the event loop (a click, a timer, a settled fetch) or    *)
(* one continuation of analyzeFile: the promise awaited between two passes *)
(* is settled already, so the continuation is a microtask and runs before  *)
(* the next task.                                                          *)
(***************************************************************************)
webBatchSize == 5

\* the repositories the user asks audits of, in the order of the requests
Sessions == {<<WideRepo>>, <<FullRepo, PyRepo>>, <<PyRepo, FullRepo>>}

IdleAudit ==
    [pc |-> "idle", repo |-> <<>>, found |-> <<>>, idx |-> 1, inflight |-> {},
     failed |-> {}, report |-> NoReport, error |-> "", cancelRequested |-> FALSE]

WebEngine ==
    [issues |-> issues, files |-> files, statistics |-> statistics,
     scores |-> scores, cancelled |-> web.cancelled]

taskMayRun_anyTime(w) == TRUE

\* a task starts when the microtask queue has been drained
taskMayRun(w) == w.micro = <<>>

\* the head of the for loop of audit, and what follows the loop
enterLoop(au, cancelled) ==
    IF au.idx <= Len(au.found) /\ ~cancelled
    THEN [au EXCEPT !.pc = "batch",
                    !.inflight = au.idx .. Min(au.idx + webBatchSize - 1, Len(au.found))]
    ELSE IF cancelled
    THEN [au EXCEPT !.pc = "failed", !.error = "Audit cancelled"]
    ELSE [au EXCEPT !.pc = "score"]

\* a task of batch.map settles; Promise.all resolves with the last one and
\* audit awaits updateProgress
settleTask(au, k) ==
    [au EXCEPT !.inflight = @ \ {k},
               !.pc = IF au.inflight \ {k} = {} THEN "progress" ELSE @]

WebInit ==
    /\ cnt = EmptyCounts
    /\ issues = <<>>
    /\ files = <<>>
    /\ statistics = resetStatistics
    /\ scores = resetScores
    /\ repo = <<>>
    /\ target = "browser"
    /\ pc = "web"
    /\ found = <<>>
    /\ idx = 1
    /\ inflight = {}
    /\ report = NoReport
    /\ exitCode = NoExit
    /\ twin = NoTwin
    /\ \E s \in Sessions :
          web = [cancelled |-> FALSE, micro |-> <<>>, session |-> s,
                 audits |-> [a \in 1..Len(s) |-> IdleAudit]]
    /\ failed = {}
    /\ fn = NoFn
    /\ auth = NoAuth

\* startAudit: audit() is called; reset, then the first updateProgress
WebAudit(a) ==
    /\ pc = "web" /\ taskMayRun(web)
    /\ web.audits[a].pc = "idle"
    /\ \A b \in 1..(a - 1) : web.audits[b].pc # "idle"
    /\ LET e == reset(WebEngine)
       IN  /\ issues' = e.issues
           /\ files' = e.files
           /\ statistics' = e.statistics
           /\ scores' = e.scores
           /\ web' = [web EXCEPT !.cancelled = e.cancelled,
                                 !.audits[a] = [IdleAudit EXCEPT !.pc = "tree",
                                                                 !.repo = web.session[a]]]
    /\ UNCHANGED <<cnt, fn, auth, driverVars, twin, failed>>

\* getRepoTree rejects, or its answer has no tree: audit rejects
WebTreeFails(a) ==
    /\ pc = "web" /\ taskMayRun(web)
    /\ web.audits[a].pc = "tree"
    /\ web' = [web EXCEPT !.audits[a].pc = "failed",
                          !.audits[a].error = "Unable to fetch repository structure"]
    /\ UNCHANGED <<cnt, fn, auth, engineVars, driverVars, twin, failed>>

\* the tree arrives: filesToAnalyze, statistics.totalFiles
WebTree(a) ==
    /\ pc = "web" /\ taskMayRun(web)
    /\ web.audits[a].pc = "tree"
    /\ LET filesToAnalyze ==
               SelectSeq(web.audits[a].repo, LAMBDA item :
                   item.type = "blob" /\ shouldAnalyze(item.path))
       IN  /\ statistics' = declareTotal(statistics, filesToAnalyze)
           /\ web' = [web EXCEPT !.audits[a].pc = "branch",
                                 !.audits[a].found = filesToAnalyze]
    /\ UNCHANGED <<cnt, fn, auth, issues, files, scores, driverVars, twin, failed>>

\* getDefaultBranch rejects: audit rejects
WebBranchFails(a) ==
    /\ pc = "web" /\ taskMayRun(web)
    /\ web.audits[a].pc = "branch"
    /\ web' = [web EXCEPT !.audits[a].pc = "failed",
                          !.audits[a].error = "API request failed"]
    /\ UNCHANGED <<cnt, fn, auth, engineVars, driverVars, twin, failed>>

\* the default branch arrives: the loop starts
WebBranch(a) ==
    /\ pc = "web" /\ taskMayRun(web)
    /\ web.audits[a].pc = "branch"
    /\ web' = [web EXCEPT !.audits[a] = enterLoop(@, web.cancelled)]
    /\ UNCHANGED <<cnt, fn, auth, engineVars, driverVars, twin, failed>>

\* getFileContent of one file of the batch settles.  On success analyzeFile
\* runs to its first await; on failure the task's catch settles the task.
WebFetchSettle(a, k) ==
    /\ pc = "web" /\ taskMayRun(web)
    /\ web.audits[a].pc = "batch" /\ k \in web.audits[a].inflight
    /\ \E fetchOk \in BOOLEAN :
          IF fetchOk
          THEN /\ SetEngine(webAnalyzeFileStart(Engine, web.audits[a].found[k].path,
                                                web.audits[a].found[k].content))
               /\ web' = [web EXCEPT !.micro =
                             Append(@, [audit |-> a, file |-> k, pass |-> 2])]
          ELSE /\ UNCHANGED <<issues, files, statistics>>
               /\ web' = [web EXCEPT !.audits[a] =
                             settleTask([@ EXCEPT !.failed = @ \cup {k}], k)]
    /\ UNCHANGED <<cnt, fn, auth, scores, driverVars, twin, failed>>

\* the oldest continuation of an analyzeFile runs: the next pass, and after
\* the last pass (whether or not it raised) the task settles
WebMicrotask ==
    /\ pc = "web" /\ web.micro # <<>>
    /\ LET m == Head(web.micro)
           file == web.audits[m.audit].found[m.file]
       IN  /\ SetEngine(webAnalyzeFilePass(Engine, file.path, file.content, m.pass))
           /\ IF m.pass < Len(Types)
              THEN web' = [web EXCEPT !.micro =
                              Append(Tail(@), [m EXCEPT !.pass = @ + 1])]
              ELSE web' = [web EXCEPT !.micro = Tail(@),
                                      !.audits[m.audit] = settleTask(@, m.file)]
    /\ UNCHANGED <<cnt, fn, auth, scores, driverVars, twin, failed>>

\* the updateProgress after a batch returns: i += batchSize, the loop head
WebProgress(a) ==
    /\ pc = "web" /\ taskMayRun(web)
    /\ web.audits[a].pc = "progress"
    /\ web' = [web EXCEPT !.audits[a] =
                  enterLoop([@ EXCEPT !.idx = @ + webBatchSize], web.cancelled)]
    /\ UNCHANGED <<cnt, fn, auth, engineVars, driverVars, twin, failed>>

\* updateProgress(80), crossFileAnalysis (it changes nothing),
\* updateProgress(90), calculateScores
WebScores(a) ==
    /\ pc = "web" /\ taskMayRun(web)
    /\ web.audits[a].pc = "score"
    /\ scores' = webCalculateScores(issues)
    /\ web' = [web EXCEPT !.audits[a].pc = "report"]
    /\ UNCHANGED <<cnt, fn, auth, issues, files, statistics, driverVars, twin, failed>>

\* updateProgress(95) returns: generateReport
WebReport(a) ==
    /\ pc = "web" /\ taskMayRun(web)
    /\ web.audits[a].pc = "report"
    /\ web' = [web EXCEPT !.audits[a].pc = "return",
                          !.audits[a].report = webGenerateReport(Engine, scores, "repo")]
    /\ UNCHANGED <<cnt, fn, auth, engineVars, driverVars, twin, failed>>

\* updateProgress(100) returns: audit resolves with the report
WebReturn(a) ==
    /\ pc = "web" /\ taskMayRun(web)
    /\ web.audits[a].pc = "return"
    /\ web' = [web EXCEPT !.audits[a].pc = "done"]
    /\ UNCHANGED <<cnt, fn, auth, engineVars, driverVars, twin, failed>>

\* audit() has been called and has neither resolved nor rejected
inFlight(au) == au.pc \notin {"idle", "done", "failed"}

\* cancelAudit: auditEngine.cancel(); cancelRequested notes for each audit
\* in flight that cancel was called during it
WebCancel ==
    /\ pc = "web" /\ taskMayRun(web)
    /\ ~web.cancelled
    /\ \E a \in DOMAIN web.audits : inFlight(web.audits[a])
    /\ web' = [web EXCEPT
                  !.cancelled = TRUE,
                  !.audits = [a \in DOMAIN @ |->
                                 IF inFlight(@[a])
                                 THEN [@[a] EXCEPT !.cancelRequested = TRUE]
                                 ELSE @[a]]]
    /\ UNCHANGED <<cnt, fn, auth, engineVars, driverVars, twin, failed>>

WebNext ==
    \/ \E a \in DOMAIN web.audits : WebAudit(a)
    \/ \E a \in DOMAIN web.audits : WebTreeFails(a)
    \/ \E a \in DOMAIN web.audits : WebTree(a)
    \/ \E a \in DOMAIN web.audits : WebBranchFails(a)
    \/ \E a \in DOMAIN web.audits : WebBranch(a)
    \/ \E a \in DOMAIN web.audits : \E k \in web.audits[a].inflight : WebFetchSettle(a, k)
    \/ WebMicrotask
    \/ \E a \in DOMAIN web.audits : WebProgress(a)
    \/ \E a \in DOMAIN web.audits : WebScores(a)
    \/ \E a \in DOMAIN web.audits : WebReport(a)
    \/ \E a \in DOMAIN web.audits : WebReturn(a)
    \/ WebCancel

SpecWeb == WebInit /\ [][WebNext]_vars

(***************************************************************************)
(* SpecApi: a caller of the engine class.  After new AuditEngine() it      *)
(* calls analyzeFile, generateReport and reset in any order; report is the *)
(* report it was handed last.                                              *)
(***************************************************************************)
MaxCalls == 3

ApiFiles ==
    { Entry(Path(<<"src">>, <<"app", "js">>), "blob", 120, KeyJs),
      Entry(Path(<<"lib">>, <<"m1", "js">>), "blob", 0, EmptyText),
      Entry(Path(<<>>, <<"Dockerfile">>), "blob", 0, EmptyText),
      Entry(Path(<<"bin">>, <<"toString">>), "blob", 120, KeyJs),
      Entry(Path(<<"api">>, <<"Dockerfile">>), "blob", 25, PinnedImage) }

ApiInit ==
    /\ cnt = EmptyCounts
    /\ issues = <<>>
    /\ files = <<>>
    /\ statistics = resetStatistics
    /\ scores = resetScores
    /\ repo = <<>>
    /\ target = "api"
    /\ pc = "api"
    /\ found = <<>>
    /\ idx = 1
    /\ inflight = {}
    /\ report = NoReport
    /\ exitCode = NoExit
    /\ twin = NoTwin
    /\ web = NoWeb
    /\ failed = {}
    /\ fn = NoFn
    /\ auth = NoAuth

\* engine.analyzeFile(path, content); an exception goes to the caller
ApiAnalyzeFile(f) ==
    /\ pc \in {"api", "reported", "reported again"}
    /\ statistics.analyzedFiles < MaxCalls
    /\ SetEngine(analyzeFile(Engine, f.path, f.content))
    /\ pc' = "api"
    /\ UNCHANGED <<cnt, fn, auth, scores, repo, target, found, idx, inflight, report,
                   exitCode, twin, web, failed>>

\* engine.generateReport(label); pc tells whether analyzeFile or reset was
\* called since the report before
ApiGenerateReport ==
    /\ pc \in {"api", "reported", "reported again"}
    /\ LET e == applyCalculateScores(Engine)
       IN  /\ SetEngine(e)
           /\ scores' = e.scores
           /\ report' = generateReport(Engine, "repo")
    /\ pc' = IF pc = "api" THEN "reported" ELSE "reported again"
    /\ UNCHANGED <<cnt, fn, auth, repo, target, found, idx, inflight, exitCode, twin, web, failed>>

\* engine.reset()
ApiReset ==
    /\ pc \in {"api", "reported", "reported again"}
    /\ LET e == reset(WebEngine)
       IN  /\ SetEngine(e)
           /\ scores' = e.scores
    /\ pc' = "api"
    /\ UNCHANGED <<cnt, fn, auth, repo, target, found, idx, inflight, report, exitCode,
                   twin, web, failed>>

ApiNext ==
    \/ \E f \in ApiFiles : ApiAnalyzeFile(f)
    \/ ApiGenerateReport
    \/ ApiReset

SpecApi == ApiInit /\ [][ApiNext]_vars

(***************************************************************************)
(* Lines of text.  A line is its leading white space and the rest; the     *)
(* rest has no white space in it, so that its length is the number of its  *)
(* non-white-space characters.                                             *)
(***************************************************************************)
Line(indent, text) == [indent |-> indent, text |-> text]

\* String.prototype.trim
trim(line) == line.text

\* String.prototype.length of the texts used here
length(text) ==
    CASE text = "a+=b;" -> 5
      [] text = "c+=d;" -> 5
      [] text = "}" -> 1
      [] OTHER -> 0

LineSet ==
    { Line(0, "a+=b;"), Line(4, "a+=b;"), Line(0, "c+=d;"), Line(0, "}") }

(***************************************************************************)
(* AuditEngine._duplicateLines                                             *)
(***************************************************************************)
\* lines.slice(i, i + 4).map(l => l.trim()), i counted from 1; join('|')
\* keeps the four texts apart
blockAt(lines, i) == [k \in 1..4 |-> trim(lines[i + k - 1])]

\* block.replace(/\s/g, '').length: the four texts and the three bars
solidLength(block) ==
    length(block[1]) + length(block[2]) + length(block[3]) + length(block[4]) + 3

afterReport_goOn(rest) == rest

\* return; // Only report once per file
afterReport(rest) == <<>>

\* the for loop from index i on, seen holding the blocks set so far
RECURSIVE scanBlocks(_, _, _)
scanBlocks(lines, i, seen) ==
    IF i > Len(lines) - 3 THEN <<>>
    ELSE LET block == blockAt(lines, i)
         IN  IF solidLength(block) < 20 THEN scanBlocks(lines, i + 1, seen)
             ELSE IF block \in seen
             THEN << Candidate("unused", "info", "Duplicate Code Block", i) >>
                      \o afterReport(scanBlocks(lines, i + 1, seen))
             ELSE scanBlocks(lines, i + 1, seen \cup {block})

\* the issues _duplicateLines hands to addIssue
_duplicateLines(lines) ==
    IF Len(lines) < 10 THEN <<>> ELSE scanBlocks(lines, 1, {})

(***************************************************************************)
(* SpecDup: _duplicateLines applied to texts built from copies of one      *)
(* four-line block and loose lines between them.                           *)
(***************************************************************************)
MaxBlocks == 3

MaxLoose == 1

DupInit ==
    /\ cnt = EmptyCounts
    /\ issues = <<>>
    /\ files = <<>>
    /\ statistics = resetStatistics
    /\ scores = resetScores
    /\ repo = <<>>
    /\ target = "none"
    /\ pc = "dup"
    /\ found = <<>>
    /\ idx = 1
    /\ inflight = {}
    /\ report = NoReport
    /\ exitCode = NoExit
    /\ twin = NoTwin
    /\ web = NoWeb
    /\ failed = {}
    /\ \E block \in [1..4 -> LineSet] :
          fn = [lines |-> <<>>, block |-> block, blocks |-> 0, loose |-> 0,
                reported |-> _duplicateLines(<<>>)]
    /\ auth = NoAuth

\* the text grows by a copy of the block
DupAppendBlock ==
    /\ pc = "dup" /\ fn.blocks < MaxBlocks
    /\ LET lines == fn.lines \o fn.block
       IN  fn' = [fn EXCEPT !.lines = lines, !.blocks = @ + 1,
                            !.reported = _duplicateLines(lines)]
    /\ UNCHANGED <<cnt, auth, engineVars, driverVars, twin, web, failed>>

\* the text grows by one line
DupAppendLine(line) ==
    /\ pc = "dup" /\ fn.loose < MaxLoose
    /\ LET lines == Append(fn.lines, line)
       IN  fn' = [fn EXCEPT !.lines = lines, !.loose = @ + 1,
                            !.reported = _duplicateLines(lines)]
    /\ UNCHANGED <<cnt, auth, engineVars, driverVars, twin, web, failed>>

DupNext ==
    \/ DupAppendBlock
    \/ \E line \in LineSet : DupAppendLine(line)

SpecDup == DupInit /\ [][DupNext]_vars

(***************************************************************************)
(* AuditEngine._detectLongFunctions and the browser's detectLongFunctions. *)
(* Of a line they read whether the function pattern matches it and how     *)
(* many opening and closing braces it holds.                               *)
(***************************************************************************)
CodeLine(starts, opens, closes) ==
    [starts |-> starts, opens |-> opens, closes |-> closes]

\* the issue handed to addIssue; cites is the length its description names
LongFunction(line, len) ==
    [type |-> "quality", severity |-> "warning", title |-> "Long Function",
     line |-> line, cites |-> len]

isLong_bodyOnly(len) == len - 2 > 50

\* if (len > 50)
isLong(len) == len > 50

\* the for loop from line i on (lines counted from 1, funcStart 0 for none);
\* the function ends at depth <= 0 in the CLI and at braceCount === 0 in the
\* browser, and its length is i - funcStart + 1
RECURSIVE longScan(_, _, _, _, _)
longScan(lines, i, funcStart, depth, browser) ==
    IF i > Len(lines) THEN <<>>
    ELSE LET line == lines[i]
             begins == funcStart = 0 /\ line.starts
             start == IF begins THEN i ELSE funcStart
             before == IF begins THEN 0 ELSE depth
         IN  IF start = 0 THEN longScan(lines, i + 1, 0, depth, browser)
             ELSE LET d == before + line.opens - line.closes
                      ends == /\ IF browser THEN d = 0 ELSE d <= 0
                              /\ i > start
                      len == i - start + 1
                  IN  IF ends
                      THEN (IF isLong(len) THEN << LongFunction(start, len) >>
                            ELSE <<>>)
                               \o longScan(lines, i + 1, 0, d, browser)
                      ELSE longScan(lines, i + 1, start, d, browser)

_detectLongFunctions(lines) == longScan(lines, 1, 0, 0, FALSE)

detectLongFunctions(lines) == longScan(lines, 1, 0, 0, TRUE)

(***************************************************************************)
(* SpecLong: both detectors applied to a text that holds one function      *)
(* under construction, after nothing, a loose line or a short function.    *)
(* The opening brace stands on the signature's line or on the next one;    *)
(* the body grows by statements and by at most one nested block of three   *)
(* lines (an if block or an inner function); the closing brace has its own *)
(* line.                                                                   *)
(***************************************************************************)
MaxBody == 60

Statement == CodeLine(FALSE, 0, 0)

\* function short() { / a statement / }
ShortFunction == << CodeLine(TRUE, 1, 0), Statement, CodeLine(FALSE, 0, 1) >>

Prefixes == {<<>>, <<Statement>>, ShortFunction}

\* function f() {   or   function f()  and  {  on the next line
Signatures == { << CodeLine(TRUE, 1, 0) >>,
                << CodeLine(TRUE, 0, 0), CodeLine(FALSE, 1, 0) >> }

Measured(lines) ==
    [reported |-> _detectLongFunctions(lines),
     browser |-> detectLongFunctions(lines)]

LongInit ==
    /\ cnt = EmptyCounts
    /\ issues = <<>>
    /\ files = <<>>
    /\ statistics = resetStatistics
    /\ scores = resetScores
    /\ repo = <<>>
    /\ target = "none"
    /\ pc = "long"
    /\ found = <<>>
    /\ idx = 1
    /\ inflight = {}
    /\ report = NoReport
    /\ exitCode = NoExit
    /\ twin = NoTwin
    /\ web = NoWeb
    /\ failed = {}
    /\ \E prefix \in Prefixes, signature \in Signatures :
          fn = [lines |-> prefix \o signature, start |-> Len(prefix) + 1,
                head |-> Len(signature), body |-> 0, nested |-> FALSE,
                open |-> TRUE, measured |-> Measured(prefix \o signature)]
    /\ auth = NoAuth

\* the body grows by one statement
LongAppendStatement ==
    /\ pc = "long" /\ fn.open /\ fn.body < MaxBody
    /\ LET lines == Append(fn.lines, Statement)
       IN  fn' = [fn EXCEPT !.lines = lines, !.body = @ + 1,
                            !.measured = Measured(lines)]
    /\ UNCHANGED <<cnt, auth, engineVars, driverVars, twin, web, failed>>

\* the body grows by a nested block: its opening line (an inner function's
\* signature or not), a statement, its closing brace
LongAppendNested(innerFunction) ==
    /\ pc = "long" /\ fn.open /\ fn.body + 3 <= MaxBody /\ ~fn.nested
    /\ LET lines == fn.lines \o << CodeLine(innerFunction, 1, 0), Statement,
                                   CodeLine(FALSE, 0, 1) >>
       IN  fn' = [fn EXCEPT !.lines = lines, !.body = @ + 3, !.nested = TRUE,
                            !.measured = Measured(lines)]
    /\ UNCHANGED <<cnt, auth, engineVars, driverVars, twin, web, failed>>

\* the function's closing brace
LongClose ==
    /\ pc = "long" /\ fn.open
    /\ LET lines == Append(fn.lines, CodeLine(FALSE, 0, 1))
       IN  fn' = [fn EXCEPT !.lines = lines, !.open = FALSE,
                            !.measured = Measured(lines)]
    /\ UNCHANGED <<cnt, auth, engineVars, driverVars, twin, web, failed>>

LongNext ==
    \/ LongAppendStatement
    \/ \E innerFunction \in BOOLEAN : LongAppendNested(innerFunction)
    \/ LongClose

SpecLong == LongInit /\ [][LongNext]_vars

(***************************************************************************)
(* SpecLang: getLanguage applied to one path.                              *)
(***************************************************************************)
LangDirs == {<<>>, <<"src">>, <<"tools", "gen">>, <<"node_modules", "lib">>,
             <<"constructor">>, <<"Dockerfile">>}

LangBases ==
    { <<"app", "js">>, <<"Main", "PY">>, <<"view", "blade", "php">>,
      <<"view", "BLADE", "PHP">>, <<"a", "b", "js">>, <<"", "js">>,
      <<"Cargo", "toml">>, <<"x", "toml">>, <<"cargo", "toml">>,
      <<"Dockerfile">>, <<"Dockerfile", "js">>, <<"go", "sum">>,
      <<"", "gitignore">>, <<"README">>, <<"notes", "xyz">>, <<"notes", "txt">>,
      <<"constructor">>, <<"toString">>, <<"lib", "constructor">>, <<"py">> }

LangInit ==
    /\ cnt = EmptyCounts
    /\ issues = <<>>
    /\ files = <<>>
    /\ statistics = resetStatistics
    /\ scores = resetScores
    /\ repo = <<>>
    /\ target = "none"
    /\ pc = "lang"
    /\ found = <<>>
    /\ idx = 1
    /\ inflight = {}
    /\ report = NoReport
    /\ exitCode = NoExit
    /\ twin = NoTwin
    /\ web = NoWeb
    /\ failed = {}
    /\ \E dirs \in LangDirs, base \in LangBases :
          fn = [path |-> Path(dirs, base), called |-> FALSE, lang |-> OtherLanguage]
    /\ auth = NoAuth

\* const lang = getLanguage(path)
LangClassify ==
    /\ pc = "lang" /\ ~fn.called
    /\ fn' = [fn EXCEPT !.called = TRUE, !.lang = getLanguage(fn.path)]
    /\ UNCHANGED <<cnt, auth, engineVars, driverVars, twin, web, failed>>

SpecLang == LangInit /\ [][LangClassify]_vars

(***************************************************************************)
(* Properties of calculateScores (SpecScore)                               *)
(***************************************************************************)
\* the penalty of category t, from the counts
PenaltyOfCounts(t) ==
    15 * cnt[<<t, "critical">>] + 5 * cnt[<<t, "warning">>] + cnt[<<t, "info">>]

ExceedsEveryCeiling ==
    /\ PenaltyOfCounts("security") > 60
    /\ PenaltyOfCounts("performance") > 40
    /\ PenaltyOfCounts("quality") > 40
    /\ PenaltyOfCounts("unused") > 30

\* C3 as stated: issues above the penalty ceiling in every category give
\* four category scores of 0 and an overall score of 0.
C3_AllZeroAboveCeilings ==
    ExceedsEveryCeiling =>
        scores = [security |-> 0, performance |-> 0, quality |-> 0,
                  cleanliness |-> 0, overall |-> 0]

\* C3 amended: issues above the penalty ceiling in every category give each
\* category its floor, 100 minus its ceiling (security 40, performance 60,
\* quality 60, cleanliness 70), and an overall score of 55.
C3_FloorAboveCeilings ==
    ExceedsEveryCeiling =>
        scores = [security |-> 40, performance |-> 60, quality |-> 60,
                  cleanliness |-> 70, overall |-> 55]

C3_Witness ==
    /\ ExceedsEveryCeiling
    /\ scores.security = 40
    /\ scores.overall = 55

\* C4: every category score is max(0, 100 - min(P, ceiling)) with P = 15 per
\* critical, 5 per warning, 1 per info issue of the category; the overall
\* score is the weighted sum 0.35 / 0.25 / 0.25 / 0.15 rounded to the nearest
\* integer (a half rounds up); the order of the issues does not matter.
C4_ScoreFormula ==
    LET s == Max(0, 100 - Min(PenaltyOfCounts("security"), 60))
        p == Max(0, 100 - Min(PenaltyOfCounts("performance"), 40))
        q == Max(0, 100 - Min(PenaltyOfCounts("quality"), 40))
        c == Max(0, 100 - Min(PenaltyOfCounts("unused"), 30))
    IN  /\ scores = [security |-> s, performance |-> p, quality |-> q,
                     cleanliness |-> c,
                     overall |-> (35 * s + 25 * p + 25 * q + 15 * c + 50) \div 100]
        /\ calculateScores(Reverse(issues)) = scores

\* C8: a step that adds one critical issue, of any category, raises none of
\* the five scores.
C8_CriticalNeverRaises ==
    [][\A t \in TypeSet :
          cnt' = [cnt EXCEPT ![<<t, "critical">>] = @ + 1] =>
              /\ scores'.security <= scores.security
              /\ scores'.performance <= scores.performance
              /\ scores'.quality <= scores.quality
              /\ scores'.cleanliness <= scores.cleanliness
              /\ scores'.overall <= scores.overall]_vars

\* a fifth critical security issue on top of four: the score stays at 40
C8_Witness ==
    /\ cnt[<<"security", "critical">>] = 5
    /\ cnt[<<"unused", "critical">>] >= 1
    /\ scores.security = 40
    /\ scores.cleanliness < 100

(***************************************************************************)
(* Properties of the engine and of the CLI run (Spec, SpecDet)             *)
(***************************************************************************)
AppJs == Path(<<"src">>, <<"app", "js">>)

BadPy == Path(<<>>, <<"bad", "py">>)

IssuesOfFile(iss, path) == SelectSeq(iss, LAMBDA i : i.file = path)

FilePaths == {files[k].path : k \in 1..Len(files)}

RECURSIVE SumLines(_)
SumLines(fs) == IF fs = <<>> THEN 0 ELSE Head(fs).lines + SumLines(Tail(fs))

\* C1: no two issues of the engine's list, or of a report, have the same
\* file, line and title.
C1_NoDuplicateIssues ==
    /\ \A i, j \in 1..Len(issues) :
          i # j => <<issues[i].file, issues[i].line, issues[i].title>>
                   # <<issues[j].file, issues[j].line, issues[j].title>>
    /\ report # NoReport =>
          \A i, j \in 1..Len(report.issues) :
              i # j => <<report.issues[i].file, report.issues[i].line, report.issues[i].title>>
                       # <<report.issues[j].file, report.issues[j].line, report.issues[j].title>>

\* src/app.js emits three candidates, two of them with the same line and
\* title: two issues of the file are in the list
C1_Witness ==
    /\ AppJs \in FilePaths
    /\ Len(IssuesOfFile(issues, AppJs)) = 2

\* C2: each of the five scores is an integer from 0 to 100.
C2_ScoresInRange ==
    /\ scores.security \in 0..100
    /\ scores.performance \in 0..100
    /\ scores.quality \in 0..100
    /\ scores.cleanliness \in 0..100
    /\ scores.overall \in 0..100

\* every category above its ceiling, and scores still in range
C2_Witness ==
    /\ PenaltyOfCounts("security") > 100
    /\ PenaltyOfCounts("quality") > 40
    /\ scores.security = 40
    /\ scores.overall < 60

HasCritical(iss) == \E k \in 1..Len(iss) : iss[k].severity = "critical"

\* C5 as stated: the exit code is 1 exactly when the filtered issue list of
\* the report holds a critical issue, and 0 otherwise.
C5_ExitOnFilteredCritical ==
    exitCode \in {0, 1} => (exitCode = 1 <=> HasCritical(report.issues))

\* C5 amended: the exit code is 1 exactly when the unfiltered issue list of
\* the run holds a critical issue, and 0 otherwise.
C5_ExitOnAnyCritical ==
    exitCode \in {0, 1} => (exitCode = 1 <=> HasCritical(issues))

\* the filters removed every critical issue and the exit code is 1
C5_Witness ==
    /\ exitCode = 1
    /\ HasCritical(issues)
    /\ ~HasCritical(report.issues)

\* a basename that is no known filename, with an extension that neither as
\* compound nor as final extension is a key of LANGUAGES
UnrecognisedExtension(path) ==
    /\ extname(path) # <<>>
    /\ path.base \notin DOMAIN FILENAME_LANGUAGES
    /\ Tail(path.base) \notin DOMAIN LANGUAGES
    /\ <<toLowerCase(extname(path)[1])>> \notin DOMAIN LANGUAGES

OtherPaths ==
    {repo[k].path : k \in {n \in 1..Len(repo) :
                              getLanguage(repo[n].path).family = "other"}}

\* C6: a path with an unrecognised extension is of family other, and a file
\* of family other is in no FileRecord, no issue and no counter.
C6_OtherNeverAnalysed ==
    /\ \A k \in 1..Len(repo) :
          UnrecognisedExtension(repo[k].path) =>
              getLanguage(repo[k].path).family = "other"
    /\ \A k \in 1..Len(found) : found[k].path \notin OtherPaths
    /\ \A k \in 1..Len(files) :
          files[k].path \notin OtherPaths /\ files[k].family # "other"
    /\ \A k \in 1..Len(issues) : issues[k].file \notin OtherPaths
    /\ "Other" \notin DOMAIN statistics.languages
    /\ statistics.analyzedFiles = Len(files)
    /\ statistics.analyzedLines = SumLines(files)

\* a finished run over a tree with a file of an unrecognised extension
C6_Witness ==
    /\ pc = "exited" /\ report # NoReport
    /\ \E k \in 1..Len(repo) : UnrecognisedExtension(repo[k].path)
    /\ statistics.analyzedFiles > 0

\* C7: two fresh engines that received the same files have the same issues
\* (ids and order included), scores and statistics, whatever the order in
\* which the fetches settled.
C7_SameReports ==
    (pc = "det" /\ inflight = {} /\ twin.inflight = {}) =>
        LET a == generateReport(Engine, "repo")
            b == generateReport(TwinEngine, "repo")
        IN  /\ a.issues = b.issues
            /\ a.scores = b.scores
            /\ a.statistics = b.statistics

\* C11: the k-th issue of the engine's list has id k, so the ids of a run are
\* 1, 2, ... without a gap or a repeat, and a discarded duplicate candidate
\* uses up no id.
C11_SequentialIds ==
    /\ \A k \in 1..Len(issues) : issues[k].id = k
    /\ twin # NoTwin => \A k \in 1..Len(twin.issues) : twin.issues[k].id = k

\* src/app.js: the second key candidate was discarded, and the TODO issue
\* that follows the key issue has the next id
C11_Witness ==
    \E k \in 2..Len(issues) :
        /\ issues[k].file = AppJs /\ issues[k].title = "TODO Comment"
        /\ issues[k - 1].file = AppJs
        /\ issues[k - 1].title = "Exposed OpenAI API Key"
        /\ issues[k].id = issues[k - 1].id + 1
        /\ k >= 3

\* C9: the file of every issue is the path of a FileRecord of the run, and
\* the statistics count that file.
C9_IssueFileRecorded ==
    LET issueFiles == {issues[k].file : k \in 1..Len(issues)}
    IN  /\ issueFiles \subseteq FilePaths
        /\ Cardinality(issueFiles) <= statistics.analyzedFiles

\* bad.py: an issue was added, then the unused-code pass raised
C9_Witness ==
    /\ Len(IssuesOfFile(issues, BadPy)) > 0
    /\ BadPy \in FilePaths

\* C10: analyzedFiles never exceeds totalFiles, and counts only files that
\* were read or fetched.
C10_AnalyzedAtMostTotal ==
    /\ statistics.analyzedFiles <= statistics.totalFiles
    /\ pc = "local" => statistics.analyzedFiles <= idx - 1
    /\ pc = "batch" =>
          statistics.analyzedFiles
              <= Min(idx + GITHUB_BATCH_SIZE - 1, Len(found)) - Cardinality(inflight)
    /\ report # NoReport =>
          report.statistics.analyzedFiles <= report.statistics.totalFiles

\* a finished run in which a read or a fetch failed
C10_Witness ==
    /\ pc = "exited" /\ report # NoReport
    /\ 0 < statistics.analyzedFiles
    /\ statistics.analyzedFiles < statistics.totalFiles

\* what the documented values of --severity and --type are
ValidSeverity(sev) == sev \in {"info", "warning", "critical"}

ValidType(ty) == ty \in {"", "security", "performance", "quality", "unused"}

\* C14: at the end of the analysis, filtering with a --severity value that
\* is none of info, warning, critical gives what --severity info gives, and
\* filtering with a --type value that is none of the four categories gives
\* what no --type gives: the invalid value removes no issue.
C14_InvalidFilterKeepsAll ==
    pc = "report" =>
        \A sev \in SeverityOptions, ty \in TypeOptions :
            filterReport(generateReport(Engine, "repo"),
                         [severity |-> sev, type |-> ty])
            = filterReport(generateReport(Engine, "repo"),
                           [severity |-> IF ValidSeverity(sev) THEN sev ELSE "info",
                            type |-> IF ValidType(ty) THEN ty ELSE ""])

\* C15: the report after filterReport has the statistics (totalIssues,
\* criticalIssues, warnings and suggestions among them), the scores, the
\* files and the summary of the report generateReport returned; only its
\* issues may differ, and they are issues of the run, in the run's order.
C15_FilterChangesOnlyIssues ==
    report # NoReport =>
        LET full == generateReport(Engine, "repo")
        IN  /\ report.statistics = full.statistics
            /\ report.scores = full.scores
            /\ report.files = full.files
            /\ report.summary = full.summary
            /\ report.repository = full.repository
            /\ report.statistics.totalIssues = Len(issues)
            /\ report.statistics.criticalIssues = countSeverity(issues, "critical")
            /\ \A k \in 1..Len(report.issues) :
                   \E n \in 1..Len(issues) : report.issues[k] = issues[n]

\* the filter removed issues, a critical one among them, and the counts of
\* the report still are those of the whole run
C15_Witness ==
    /\ report # NoReport
    /\ Len(report.issues) < Len(issues)
    /\ report.statistics.totalIssues = Len(issues)
    /\ countSeverity(report.issues, "critical") < report.statistics.criticalIssues

\* the entries of the audited tree (of the audited trees, in the browser)
AuditedEntries ==
    IF pc = "web"
    THEN UNION {{web.session[a][k] : k \in 1..Len(web.session[a])} :
                   a \in 1..Len(web.session)}
    ELSE {repo[k] : k \in 1..Len(repo)}

\* C16: every file the engine has a FileRecord of is no binary file, is at
\* most MAX_FILE_SIZE bytes long in the tree, and has no ignored directory
\* (node_modules, dist, build, a dot directory) on its path.
C16_DeliveredFilesFiltered ==
    \A k \in 1..Len(files) :
        \A entry \in AuditedEntries :
            entry.path = files[k].path =>
                /\ ~isBinaryFile(entry.path)
                /\ entry.size <= MAX_FILE_SIZE
                /\ \A d \in 1..Len(entry.path.dirs) :
                       ~shouldIgnoreDir(entry.path.dirs[d])

RECURSIVE SumOverNames(_, _)
SumOverNames(h, names) ==
    IF names = {} THEN 0
    ELSE LET n == CHOOSE x \in names : TRUE
         IN  h[n].n + SumOverNames(h, names \ {n})

\* the positions of found the driver is done with
Handled ==
    IF pc = "local" THEN 1..(idx - 1)
    ELSE IF pc = "batch"
        THEN (1..Min(idx + GITHUB_BATCH_SIZE - 1, Len(found))) \ inflight
    ELSE IF pc = "remote" THEN 1..Min(idx - 1, Len(found))
    ELSE IF pc \in {"report", "exited"} THEN 1..Len(found)
    ELSE {}

\* C17: a file whose read or fetch failed has no FileRecord and no issue
\* and is in no counter (analyzedFiles, analyzedLines and the histogram
\* count the FileRecords only); every other file the driver is done with
\* was delivered to the engine, the files after a failed one among them; and
\* a run in which a read or fetch failed ends with a report, not with exit
\* code 2.
C17_FailedFileSkipped ==
    /\ \A k \in failed :
          /\ found[k].path \notin FilePaths
          /\ IssuesOfFile(issues, found[k].path) = <<>>
    /\ statistics.analyzedFiles = Len(files)
    /\ statistics.analyzedLines = SumLines(files)
    /\ SumOverNames(statistics.languages, DOMAIN statistics.languages) = Len(files)
    /\ \A k \in Handled : k \in failed \/ found[k].path \in FilePaths
    /\ Len(files) + Cardinality(failed) = Cardinality(Handled)
    /\ (pc = "exited" /\ failed # {}) => (report # NoReport /\ exitCode \in {0, 1})

\* a finished run of two batches: a fetch of the first batch failed, the
\* file of the second batch was analysed, the report is there
C17_Witness ==
    /\ pc = "exited" /\ report # NoReport
    /\ target = "remote"
    /\ \E k \in failed : k < Len(found)
    /\ Len(found) > GITHUB_BATCH_SIZE
    /\ found[Len(found)].path \in FilePaths
    /\ report.statistics.analyzedFiles = Len(found) - Cardinality(failed)

\* C18: a run that ends with exit code 2 has called analyzeFile for no file
\* and has generated no report: the engine is as new, no file list was
\* built, and the run is over.
C18_Exit2BeforeAnalysis ==
    exitCode = 2 =>
        /\ pc = "exited"
        /\ files = <<>> /\ issues = <<>>
        /\ statistics = resetStatistics
        /\ scores = resetScores
        /\ found = <<>>
        /\ report = NoReport

\* the tree of a repository with files to analyse could not be fetched
C18_Witness ==
    /\ exitCode = 2
    /\ target = "remote"
    /\ Len(blobsOf(repo)) > 0

\* C20: at most GITHUB_BATCH_SIZE fetches are out at any time, all of them
\* of the batch the loop is at, and a step that starts fetches is taken only
\* when no fetch-and-analyse task is unsettled, whether the tasks of the
\* batch before succeeded or failed.
C20_BatchWindow ==
    [][/\ Cardinality(inflight') <= GITHUB_BATCH_SIZE
       /\ inflight' \subseteq idx' .. (idx' + GITHUB_BATCH_SIZE - 1)
       /\ inflight' \ inflight # {} => inflight = {}]_vars

\* the second batch is out; in the first batch a fetch failed and a file
\* was analysed
C20_Witness ==
    /\ pc = "batch"
    /\ idx = GITHUB_BATCH_SIZE + 1
    /\ inflight = {idx}
    /\ failed # {}
    /\ Len(files) > 0

(***************************************************************************)
(* Properties of the browser's shared engine (SpecWeb)                     *)
(***************************************************************************)
\* C12: the step in which reset runs leaves the engine as a newly built one:
\* no issue, no FileRecord, every counter 0, no language counted, the five
\* scores 100 (and the cancelled flag down), whatever was recorded before.
C12_ResetIsFresh ==
    [][\A a \in DOMAIN web.audits :
          (web.audits[a].pc = "idle" /\ web'.audits[a].pc # "idle") =>
              /\ issues' = <<>>
              /\ files' = <<>>
              /\ statistics' = resetStatistics
              /\ scores' = resetScores
              /\ web'.cancelled = FALSE]_vars

\* an audit has returned a report with issues, and the reset of the next
\* audit has emptied the engine
C12_Witness ==
    \E a, b \in DOMAIN web.audits :
        /\ web.audits[a].pc = "tree"
        /\ web.audits[b].pc = "done"
        /\ Len(web.audits[b].report.issues) > 0
        /\ issues = <<>> /\ files = <<>>
        /\ statistics = resetStatistics /\ scores = resetScores

(***************************************************************************)
(* Properties of the engine's interface (SpecApi)                          *)
(***************************************************************************)
\* C13: a generateReport call that follows another one, with no analyzeFile
\* (and no reset) between them, returns a report equal to the one before in
\* every field, and no generateReport call changes issues, files or
\* statistics.
C13_GenerateReportIdempotent ==
    [][/\ pc' = "reported again" => report' = report
       /\ pc' \in {"reported", "reported again"} =>
              /\ issues' = issues
              /\ files' = files
              /\ statistics' = statistics]_vars

\* a second report of an engine that holds issues and scores below 100
C13_Witness ==
    /\ pc = "reported again"
    /\ Len(issues) > 0
    /\ report.scores.overall < 100
    /\ report.issues = issues

\* C19: at most one file's analysis is in progress at any time, and while
\* it is, the file is the one analyzeFile recorded last: no other
\* analyzeFile (and no reset) has begun since, although other fetches of the
\* batch are still out.
C19_OneFileAtATime ==
    /\ Len(web.micro) <= 1
    /\ web.micro # <<>> =>
          LET m == Head(web.micro)
          IN  /\ m.file \in web.audits[m.audit].inflight
              /\ Len(files) > 0
              /\ files[Len(files)].path = web.audits[m.audit].found[m.file].path
              /\ statistics.analyzedFiles = Len(files)

\* a file is between two passes, a second file was analysed before it, and
\* fetches of the same batch are still out
C19_Witness ==
    /\ web.micro # <<>>
    /\ Head(web.micro).pass = 3
    /\ Len(files) >= 2
    /\ Cardinality(web.audits[Head(web.micro).audit].inflight) >= 3

\* C21: an analyzeFile call with the empty string as content adds no issue,
\* raises analyzedLines by exactly 1 and leaves every score as it was,
\* whatever the language family of the path.
C21_EmptyContentAddsNothing ==
    [][(Len(files') = Len(files) + 1 /\ files'[Len(files')].size = 0) =>
          /\ issues' = issues
          /\ statistics'.analyzedLines = statistics.analyzedLines + 1
          /\ calculateScores(issues') = calculateScores(issues)]_vars

(***************************************************************************)
(* Properties of _duplicateLines (SpecDup)                                 *)
(***************************************************************************)
\* the window that starts at line i is not trivial and has the trimmed
\* content of a window that starts earlier
RepeatsEarlier(lines, i) ==
    /\ i <= Len(lines) - 3
    /\ solidLength(blockAt(lines, i)) >= 20
    /\ \E j \in 1..(i - 1) : blockAt(lines, j) = blockAt(lines, i)

\* three consecutive blocks of four lines with the same trimmed content
\* start at line i
ThreeCopiesAt(lines, i) ==
    /\ i + 11 <= Len(lines)
    /\ blockAt(lines, i) = blockAt(lines, i + 4)
    /\ blockAt(lines, i) = blockAt(lines, i + 8)

\* at most one issue, at the first window that repeats an earlier one
ReportedOnceAtFirstRepeat ==
    /\ Len(fn.reported) <= 1
    /\ fn.reported # <<>> =>
          /\ fn.reported[1].title = "Duplicate Code Block"
          /\ RepeatsEarlier(fn.lines, fn.reported[1].line)
          /\ \A i \in 1..(fn.reported[1].line - 1) : ~RepeatsEarlier(fn.lines, i)

\* C22 as stated: at most one 'Duplicate Code Block' issue per file, at the
\* starting line of the first four-line window whose trimmed content repeats
\* an earlier non-trivial window; every file with three consecutive
\* identical four-line blocks yields exactly one.
C22_ThreeBlocksOneIssue ==
    /\ ReportedOnceAtFirstRepeat
    /\ \A i \in 1..Len(fn.lines) :
          ThreeCopiesAt(fn.lines, i) => Len(fn.reported) = 1

\* C22, amended: the same, with exactly one issue for three consecutive
\* identical blocks that are not trivial (their trimmed lines joined by bars
\* hold at least 20 non-white-space characters), reported no later than the
\* second copy's first line; a trivial block yields none by itself.
C22_ThreeSolidBlocksOneIssue ==
    /\ ReportedOnceAtFirstRepeat
    /\ \A i \in 1..Len(fn.lines) :
          (ThreeCopiesAt(fn.lines, i) /\ solidLength(blockAt(fn.lines, i)) >= 20) =>
              /\ Len(fn.reported) = 1
              /\ fn.reported[1].line <= i + 4

\* three copies of a non-trivial block after a loose line: one issue, at the
\* second copy's first line
C22_Witness ==
    /\ ThreeCopiesAt(fn.lines, 2)
    /\ solidLength(blockAt(fn.lines, 2)) >= 20
    /\ fn.reported = << Candidate("unused", "info", "Duplicate Code Block", 6) >>

ByPrecedence(path) ==
    LET basename == path.base
        compoundExt == Tail(basename)
        ext == IF extname(path) = <<>> THEN <<>>
               ELSE <<toLowerCase(extname(path)[1])>>
    IN  IF basename \in DOMAIN FILENAME_LANGUAGES THEN FILENAME_LANGUAGES[basename]
        ELSE IF compoundExt \in DOMAIN LANGUAGES THEN LANGUAGES[compoundExt]
        ELSE IF ext \in DOMAIN LANGUAGES THEN LANGUAGES[ext]
        ELSE OtherLanguage

\* C24: getLanguage returns, for every path, the descriptor of the first of
\* exact basename, compound extension, lower-cased final extension that has
\* an entry, and the fallback descriptor with family 'other' when none has.
C24_LanguageByPrecedence ==
    fn.called => fn.lang = ByPrecedence(fn.path)

(***************************************************************************)
(* Properties of the statistics (SpecApi)                                  *)
(***************************************************************************)
\* the count of name in histogram h, 0 for a name without entry
CountIn(h, name) == IF name \in DOMAIN h THEN h[name] ELSE Count(0)

\* the counters agree with the FileRecords
BookkeepingAgrees ==
    /\ statistics.analyzedFiles = Len(files)
    /\ statistics.analyzedLines = SumLines(files)
    /\ \A name \in DOMAIN statistics.languages : statistics.languages[name].text = ""
    /\ SumOverNames(statistics.languages, DOMAIN statistics.languages) = Len(files)

\* C25: after every call, analyzedFiles is the number of FileRecords and the
\* sum of the histogram's counts, and analyzedLines the sum of the
\* FileRecords' line counts; an analyzeFile call raises analyzedFiles by 1
\* and the count of exactly one language by 1.
C25_BookkeepingAgrees ==
    [][/\ BookkeepingAgrees'
       /\ Len(files') = Len(files) + 1 =>
             /\ statistics'.analyzedFiles = statistics.analyzedFiles + 1
             /\ \E name \in DOMAIN statistics'.languages :
                   /\ statistics'.languages[name] =
                          Count(CountIn(statistics.languages, name).n + 1)
                   /\ \A other \in DOMAIN statistics'.languages \ {name} :
                          /\ other \in DOMAIN statistics.languages
                          /\ statistics'.languages[other] = statistics.languages[other]
      ]_vars

(***************************************************************************)
(* Properties of cancel and of overlapping audits (SpecWeb)                *)
(***************************************************************************)
\* C26: an audit during which cancel was called starts no further batch and
\* never resolves with a report.
C26_CancelledNeverResolves ==
    [][\A a \in DOMAIN web.audits :
          web.audits[a].cancelRequested =>
              /\ web'.audits[a].pc # "done"
              /\ web.audits[a].pc # "batch" => web'.audits[a].pc # "batch"]_vars

\* the paths of the files audit a fetched
OwnPaths(a) ==
    {web.audits[a].found[k].path : k \in 1..Len(web.audits[a].found)}

\* C27: the report an audit() call returns holds only files and issues of
\* the files fetched for that call, also when another audit() was started
\* before it finished.
C27_ReportHoldsOwnFilesOnly ==
    \A a \in DOMAIN web.audits :
        web.audits[a].pc \in {"return", "done"} =>
            LET rep == web.audits[a].report
            IN  /\ \A k \in 1..Len(rep.files) : rep.files[k].path \in OwnPaths(a)
                /\ \A k \in 1..Len(rep.issues) : rep.issues[k].file \in OwnPaths(a)

(***************************************************************************)
(* Properties of a raising analyzeFile (Spec)                              *)
(***************************************************************************)
\* C28: a file whose analysis raised has left nothing in the run: no
\* FileRecord, no issue, and the counters count the other FileRecords only.
C28_RaisedFileLeavesNothing ==
    /\ \A k \in 1..Len(found) :
          found[k].content.throws =>
              /\ found[k].path \notin FilePaths
              /\ IssuesOfFile(issues, found[k].path) = <<>>
    /\ statistics.analyzedFiles =
           Cardinality({k \in 1..Len(files) :
                           \A j \in 1..Len(found) :
                               found[j].path = files[k].path => ~found[j].content.throws})

(***************************************************************************)
(* GitHubAuth, redirect flow: login(), the page that receives GitHub's     *)
(* redirect, handleCallback() and setAccessToken().  auth holds the        *)
(* object's fields, sessionStorage's oauth_state, localStorage's token,    *)
(* the query of the page's URL and every body POSTed to the OAuth proxy.   *)
(* "null" stands for null and for an absent URL parameter or storage key.  *)
(***************************************************************************)
MaxExchanges == 2

\* generateState: 32 random bytes in hex; two values stand for them
StateValues == {"s1", "s2"}

NoQuery == [code |-> "null", state |-> "null", error |-> "null"]

\* window.location.search of a page opened at the callback URL: GitHub's
\* redirect echoes the state it was given, any other link carries any query
Queries == [code : {"null", "c1"}, state : {"null"} \cup StateValues,
            error : {"null", "access_denied"}]

\* what the proxy answers to a POSTed code
Replies == {"access_token", "error", "empty"}

restoreSession(a) ==
    IF a.localStorage # "null"
    THEN [a EXCEPT !.accessToken = a.localStorage, !.isAuthenticated = TRUE]
    ELSE [a EXCEPT !.accessToken = "null", !.isAuthenticated = FALSE]

\* userOk: fetchUserData's response.ok; when it raises, the assignment of
\* accessToken stays and nothing else of setAccessToken runs
setAccessToken(a, token, userOk) ==
    IF userOk
    THEN [a EXCEPT !.accessToken = token, !.isAuthenticated = TRUE,
                   !.localStorage = token]
    ELSE [a EXCEPT !.accessToken = token]

\* handleCallback: thrown names the Error it raises ("none": it returned),
\* returned is the token it returns
handleCallback(a, reply) ==
    IF a.search.error # "null"
    THEN [a EXCEPT !.thrown = "OAuth error"]
    ELSE LET savedState == a.oauth_state
             mismatch == savedState # "null" /\ a.search.state # "null"
                         /\ a.search.state # savedState
             removed == [a EXCEPT !.oauth_state = "null",
                                  !.warned = mismatch]
         IN  IF a.search.code = "null"
             THEN [removed EXCEPT !.thrown = "No authorization code received"]
             ELSE LET sent == [removed EXCEPT !.posted =
                                 Append(@, [code |-> a.search.code,
                                            state |-> a.search.state,
                                            savedState |-> savedState])]
                  IN  CASE reply = "error" ->
                               [sent EXCEPT !.thrown = "exchange refused"]
                        [] reply = "empty" ->
                               [sent EXCEPT !.thrown = "No access token received"]
                        [] OTHER ->
                               [sent EXCEPT !.returned = "gho_" \o a.search.code]

\* the caller's try block: handleCallback, then setAccessToken on its token
completeSignIn(a, reply, userOk) ==
    LET handled == handleCallback(a, reply)
    IN  IF handled.thrown # "none" THEN handled
        ELSE setAccessToken(handled, handled.returned, userOk)

\* a page load builds a new GitHubAuth and reads the URL
loaded(a, query) ==
    [restoreSession(a) EXCEPT !.search = query, !.thrown = "none",
                              !.returned = "null", !.warned = FALSE]

OAuthInit ==
    /\ auth = [accessToken |-> "null", isAuthenticated |-> FALSE,
               localStorage |-> "null", oauth_state |-> "null",
               search |-> NoQuery, posted |-> <<>>, thrown |-> "none",
               returned |-> "null", warned |-> FALSE]
    /\ cnt = EmptyCounts
    /\ fn = NoFn
    /\ issues = <<>>
    /\ files = <<>>
    /\ statistics = resetStatistics
    /\ scores = resetScores
    /\ repo = <<>>
    /\ target = "none"
    /\ pc = "auth"
    /\ found = <<>>
    /\ idx = 1
    /\ inflight = {}
    /\ report = NoReport
    /\ exitCode = NoExit
    /\ twin = NoTwin
    /\ web = NoWeb
    /\ failed = {}

\* login(): save a new state and leave for GitHub's authorize page
login(state) ==
    /\ auth' = [auth EXCEPT !.oauth_state = state, !.search = NoQuery]
    /\ UNCHANGED <<cnt, fn, engineVars, driverVars, twin, web, failed>>

\* the application page opened with a query: handleOAuthCallback drops the
\* query from the URL before it calls handleCallback
handleOAuthCallback(query, reply, userOk) ==
    /\ Len(auth.posted) < MaxExchanges
    /\ LET page == loaded(auth, query)
       IN  auth' = IF query.code = "null" THEN page
                   ELSE completeSignIn([page EXCEPT !.search = NoQuery],
                                       reply, userOk)
    /\ UNCHANGED <<cnt, fn, engineVars, driverVars, twin, web, failed>>

\* a page opened at the callback URL that calls handleCallback with the
\* query still in place, then setAccessToken
callbackPage(query, reply, userOk) ==
    /\ Len(auth.posted) < MaxExchanges
    /\ auth' = completeSignIn(loaded(auth, query), reply, userOk)
    /\ UNCHANGED <<cnt, fn, engineVars, driverVars, twin, web, failed>>

logout ==
    /\ auth.isAuthenticated
    /\ auth' = [auth EXCEPT !.accessToken = "null", !.isAuthenticated = FALSE,
                            !.localStorage = "null"]
    /\ UNCHANGED <<cnt, fn, engineVars, driverVars, twin, web, failed>>

OAuthNext ==
    \/ \E state \in StateValues : login(state)
    \/ \E query \in Queries, reply \in Replies, userOk \in BOOLEAN :
           handleOAuthCallback(query, reply, userOk)
    \/ \E query \in Queries, reply \in Replies, userOk \in BOOLEAN :
           callbackPage(query, reply, userOk)
    \/ logout

SpecOAuth == OAuthInit /\ [][OAuthNext]_vars

\* C29: every code POSTed to the OAuth proxy came in a callback whose state
\* parameter equals the state login() saved in sessionStorage; on a
\* mismatch handleCallback rejects and nothing is sent.
C29_ExchangeOnlyOnMatchingState ==
    \A k \in 1..Len(auth.posted) :
        /\ auth.posted[k].savedState # "null"
        /\ auth.posted[k].state = auth.posted[k].savedState


(***************************************************************************)
(* GitHubAuth, device flow (src/js/auth.js): login() opens the modal and   *)
(* pollForAccessToken starts an interval whose callback POSTs the device   *)
(* code and awaits the answer; cancelDeviceFlow clears the interval.       *)
(* A flow is numbered by its login(); 0 stands for null.  auth.cancelled   *)
(* records, for the properties only, the flows whose Cancel button was     *)
(* clicked.                                                                *)
(***************************************************************************)
MaxFlows == 3

MaxPolls == 2

Flows == 1..MaxFlows

\* data of a poll's answer; "unreachable" is a fetch that raises
PollAnswers == {"access_token", "authorization_pending", "slow_down",
                "access_denied", "unreachable"}

NoPolls == [f \in Flows |-> 0]

cancelDeviceFlow(a) ==
    [a EXCEPT !.timers = @ \ {a.deviceFlowPolling},
              !.deviceFlowPolling = 0,
              !.modal = FALSE]

\* window.location.reload(): timers and pending answers of the page are
\* gone, a new GitHubAuth restores the session
reload(a) ==
    [restoreSession(a) EXCEPT !.timers = {}, !.deviceFlowPolling = 0,
                              !.modal = FALSE, !.polls = NoPolls]

\* the interval callback from the answer on
answered(a, data, userOk) ==
    CASE data = "access_token" ->
             LET set == setAccessToken(cancelDeviceFlow(a), "gho_device", userOk)
             IN  IF userOk THEN reload(set) ELSE set
      [] data = "access_denied" -> cancelDeviceFlow(a)
      [] OTHER -> a

DeviceInit ==
    /\ auth = [accessToken |-> "null", isAuthenticated |-> FALSE,
               localStorage |-> "null", deviceFlowPolling |-> 0,
               timers |-> {}, polls |-> NoPolls, modal |-> FALSE,
               flows |-> 0, cancelled |-> {}]
    /\ cnt = EmptyCounts
    /\ fn = NoFn
    /\ issues = <<>>
    /\ files = <<>>
    /\ statistics = resetStatistics
    /\ scores = resetScores
    /\ repo = <<>>
    /\ target = "none"
    /\ pc = "device"
    /\ found = <<>>
    /\ idx = 1
    /\ inflight = {}
    /\ report = NoReport
    /\ exitCode = NoExit
    /\ twin = NoTwin
    /\ web = NoWeb
    /\ failed = {}

\* login() with a device code granted: showDeviceFlowModal, then
\* pollForAccessToken's setInterval.  The modal's overlay covers the
\* sign-in button while it is shown.
deviceLogin ==
    /\ ~auth.modal
    /\ auth.flows < MaxFlows
    /\ LET flow == auth.flows + 1
       IN  auth' = [auth EXCEPT !.flows = flow, !.modal = TRUE,
                                !.deviceFlowPolling = flow,
                                !.timers = @ \cup {flow}]
    /\ UNCHANGED <<cnt, fn, engineVars, driverVars, twin, web, failed>>

\* the interval fires: past expiresAt it cancels and rejects, otherwise it
\* sends a poll and suspends at the await of fetch
pollTick(flow, expired) ==
    /\ flow \in auth.timers
    /\ expired \/ auth.polls[flow] < MaxPolls
    /\ auth' = IF expired THEN cancelDeviceFlow(auth)
               ELSE [auth EXCEPT !.polls[flow] = @ + 1]
    /\ UNCHANGED <<cnt, fn, engineVars, driverVars, twin, web, failed>>

\* the answer of a pending poll arrives and the callback resumes
pollAnswer(flow, data, userOk) ==
    /\ auth.polls[flow] > 0
    /\ auth' = answered([auth EXCEPT !.polls[flow] = @ - 1], data, userOk)
    /\ UNCHANGED <<cnt, fn, engineVars, driverVars, twin, web, failed>>

\* click on the modal's Cancel button
clickCancel ==
    /\ auth.modal
    /\ auth' = [cancelDeviceFlow(auth) EXCEPT
                   !.cancelled = @ \cup ({auth.deviceFlowPolling} \ {0})]
    /\ UNCHANGED <<cnt, fn, engineVars, driverVars, twin, web, failed>>

deviceLogout ==
    /\ auth.isAuthenticated
    /\ auth' = [auth EXCEPT !.accessToken = "null", !.isAuthenticated = FALSE,
                            !.localStorage = "null"]
    /\ UNCHANGED <<cnt, fn, engineVars, driverVars, twin, web, failed>>

DeviceNext ==
    \/ deviceLogin
    \/ \E flow \in Flows, expired \in BOOLEAN : pollTick(flow, expired)
    \/ \E flow \in Flows, data \in PollAnswers, userOk \in BOOLEAN :
           pollAnswer(flow, data, userOk)
    \/ clickCancel
    \/ deviceLogout

SpecDevice == DeviceInit /\ [][DeviceNext]_vars

\* C30: once a flow's Cancel was clicked, no answer of one of its polls,
\* the one pending at the click included, sets the access token, marks the
\* session authenticated or saves it: a step that changes accessToken,
\* isAuthenticated or the stored token to a signed-in value is never the
\* answer of a cancelled flow.
C30_CancelledFlowNeverAuthenticates ==
    [][\A flow \in auth.cancelled, data \in PollAnswers, userOk \in BOOLEAN :
          pollAnswer(flow, data, userOk) =>
              /\ auth'.accessToken = auth.accessToken
              /\ auth'.isAuthenticated = auth.isAuthenticated
              /\ auth'.localStorage = auth.localStorage]_vars


====
